---------------------------- MODULE Spec2Model ----------------------------
(***************************************************************************)
(* FourSG static site generator (src/src/SiteGenerator.ts,                 *)
(* src/src/SitemapGenerator.ts, src/main.ts).                              *)
(*                                                                         *)
(* A vault path is a sequence of segments, each segment a string.  TLC     *)
(* cannot take a string apart, so Spell gives every segment its spelling   *)
(* (a sequence of one-character strings) and every string operation of the *)
(* code (lower-casing, slugify, suffix stripping, equality of whole path   *)
(* strings) is computed on spellings.                                      *)
(***************************************************************************)
EXTENDS Integers, Sequences, FiniteSets, TLC

Spell ==
    "" :> <<>> @@
    "!!!" :> <<"!", "!", "!">> @@
    "." :> <<".">> @@
    ".." :> <<".", ".">> @@
    ".PNG" :> <<".", "P", "N", "G">> @@
    ".css" :> <<".", "c", "s", "s">> @@
    ".gif" :> <<".", "g", "i", "f">> @@
    ".html" :> <<".", "h", "t", "m", "l">> @@
    ".jpeg" :> <<".", "j", "p", "e", "g">> @@
    ".jpg" :> <<".", "j", "p", "g">> @@
    ".md" :> <<".", "m", "d">> @@
    ".obsidian" :> <<".", "o", "b", "s", "i", "d", "i", "a", "n">> @@
    ".png" :> <<".", "p", "n", "g">> @@
    ".svg" :> <<".", "s", "v", "g">> @@
    ".txt" :> <<".", "t", "x", "t">> @@
    ".webp" :> <<".", "w", "e", "b", "p">> @@
    ".xml" :> <<".", "x", "m", "l">> @@
    "B!" :> <<"B", "!">> @@
    "B!.md" :> <<"B", "!", ".", "m", "d">> @@
    "Index" :> <<"I", "n", "d", "e", "x">> @@
    "Index.md" :> <<"I", "n", "d", "e", "x", ".", "m", "d">> @@
    "My Docs" :> <<"M", "y", " ", "D", "o", "c", "s">> @@
    "My Post" :> <<"M", "y", " ", "P", "o", "s", "t">> @@
    "My Post.html" :> <<"M", "y", " ", "P", "o", "s", "t", ".", "h", "t", "m", "l">> @@
    "My Post.md" :> <<"M", "y", " ", "P", "o", "s", "t", ".", "m", "d">> @@
    "README" :> <<"R", "E", "A", "D", "M", "E">> @@
    "README.md" :> <<"R", "E", "A", "D", "M", "E", ".", "m", "d">> @@
    "a" :> <<"a">> @@
    "a.html" :> <<"a", ".", "h", "t", "m", "l">> @@
    "a.md" :> <<"a", ".", "m", "d">> @@
    "b" :> <<"b">> @@
    "b!" :> <<"b", "!">> @@
    "b.html" :> <<"b", ".", "h", "t", "m", "l">> @@
    "b.md" :> <<"b", ".", "m", "d">> @@
    "blog" :> <<"b", "l", "o", "g">> @@
    "c" :> <<"c">> @@
    "c.html" :> <<"c", ".", "h", "t", "m", "l">> @@
    "c.md" :> <<"c", ".", "m", "d">> @@
    "css" :> <<"c", "s", "s">> @@
    "custom" :> <<"c", "u", "s", "t", "o", "m">> @@
    "custom.css" :> <<"c", "u", "s", "t", "o", "m", ".", "c", "s", "s">> @@
    "custom.html" :> <<"c", "u", "s", "t", "o", "m", ".", "h", "t", "m", "l">> @@
    "d" :> <<"d">> @@
    "d.html" :> <<"d", ".", "h", "t", "m", "l">> @@
    "d.md" :> <<"d", ".", "m", "d">> @@
    "default" :> <<"d", "e", "f", "a", "u", "l", "t">> @@
    "default.css" :> <<"d", "e", "f", "a", "u", "l", "t", ".", "c", "s", "s">> @@
    "default.html" :> <<"d", "e", "f", "a", "u", "l", "t", ".", "h", "t", "m", "l">> @@
    "e" :> <<"e">> @@
    "e.html" :> <<"e", ".", "h", "t", "m", "l">> @@
    "e.md" :> <<"e", ".", "m", "d">> @@
    "empty.html" :> <<"e", "m", "p", "t", "y", ".", "h", "t", "m", "l">> @@
    "f" :> <<"f">> @@
    "f.html" :> <<"f", ".", "h", "t", "m", "l">> @@
    "f.md" :> <<"f", ".", "m", "d">> @@
    "foursg" :> <<"f", "o", "u", "r", "s", "g">> @@
    "g" :> <<"g">> @@
    "g.html" :> <<"g", ".", "h", "t", "m", "l">> @@
    "g.md" :> <<"g", ".", "m", "d">> @@
    "h" :> <<"h">> @@
    "h.html" :> <<"h", ".", "h", "t", "m", "l">> @@
    "h.md" :> <<"h", ".", "m", "d">> @@
    "https://demo.test" :> <<"h", "t", "t", "p", "s", ":", "/", "/", "d", "e", "m", "o", ".", "t", "e", "s", "t">> @@
    "https://demo.test/" :> <<"h", "t", "t", "p", "s", ":", "/", "/", "d", "e", "m", "o", ".", "t", "e", "s", "t", "/">> @@
    "https://example.com" :> <<"h", "t", "t", "p", "s", ":", "/", "/", "e", "x", "a", "m", "p", "l", "e", ".", "c", "o", "m">> @@
    "images" :> <<"i", "m", "a", "g", "e", "s">> @@
    "index" :> <<"i", "n", "d", "e", "x">> @@
    "index.html" :> <<"i", "n", "d", "e", "x", ".", "h", "t", "m", "l">> @@
    "index.md" :> <<"i", "n", "d", "e", "x", ".", "m", "d">> @@
    "logo" :> <<"l", "o", "g", "o">> @@
    "logo.PNG" :> <<"l", "o", "g", "o", ".", "P", "N", "G">> @@
    "missing" :> <<"m", "i", "s", "s", "i", "n", "g">> @@
    "missing.html" :> <<"m", "i", "s", "s", "i", "n", "g", ".", "h", "t", "m", "l">> @@
    "my post" :> <<"m", "y", " ", "p", "o", "s", "t">> @@
    "my-docs" :> <<"m", "y", "-", "d", "o", "c", "s">> @@
    "my-post" :> <<"m", "y", "-", "p", "o", "s", "t">> @@
    "my-post.html" :> <<"m", "y", "-", "p", "o", "s", "t", ".", "h", "t", "m", "l">> @@
    "my-post.md" :> <<"m", "y", "-", "p", "o", "s", "t", ".", "m", "d">> @@
    "nopic" :> <<"n", "o", "p", "i", "c">> @@
    "nopic.png" :> <<"n", "o", "p", "i", "c", ".", "p", "n", "g">> @@
    "notes" :> <<"n", "o", "t", "e", "s">> @@
    "notes.txt" :> <<"n", "o", "t", "e", "s", ".", "t", "x", "t">> @@
    "obsidian" :> <<"o", "b", "s", "i", "d", "i", "a", "n">> @@
    "obsidian-foursg" :> <<"o", "b", "s", "i", "d", "i", "a", "n", "-", "f", "o", "u", "r", "s", "g">> @@
    "obsidian-foursg-notes" :> <<"o", "b", "s", "i", "d", "i", "a", "n", "-", "f", "o", "u", "r", "s", "g", "-", "n", "o", "t", "e", "s">> @@
    "old" :> <<"o", "l", "d">> @@
    "old.html" :> <<"o", "l", "d", ".", "h", "t", "m", "l">> @@
    "pic" :> <<"p", "i", "c">> @@
    "pic.png" :> <<"p", "i", "c", ".", "p", "n", "g">> @@
    "pic.png.png" :> <<"p", "i", "c", ".", "p", "n", "g", ".", "p", "n", "g">> @@
    "plugins" :> <<"p", "l", "u", "g", "i", "n", "s">> @@
    "readme" :> <<"r", "e", "a", "d", "m", "e">> @@
    "readme.html" :> <<"r", "e", "a", "d", "m", "e", ".", "h", "t", "m", "l">> @@
    "robots" :> <<"r", "o", "b", "o", "t", "s">> @@
    "robots.txt" :> <<"r", "o", "b", "o", "t", "s", ".", "t", "x", "t">> @@
    "site" :> <<"s", "i", "t", "e">> @@
    "sitemap" :> <<"s", "i", "t", "e", "m", "a", "p">> @@
    "sitemap.xml" :> <<"s", "i", "t", "e", "m", "a", "p", ".", "x", "m", "l">> @@
    "templates" :> <<"t", "e", "m", "p", "l", "a", "t", "e", "s">>

\* The string with spelling cs.
Str(cs) == CHOOSE s \in DOMAIN Spell : Spell[s] = cs

Last(s) == s[Len(s)]

Front(s) == SubSeq(s, 1, Len(s) - 1)

RECURSIVE SetToSeq(_)
\* The members of a finite set in a fixed order.
SetToSeq(S) ==
    IF S = {} THEN <<>>
    ELSE LET x == CHOOSE y \in S : TRUE IN <<x>> \o SetToSeq(S \ {x})

Range(s) == {s[i] : i \in DOMAIN s}

IsPrefix(p, q) == Len(p) <= Len(q) /\ SubSeq(q, 1, Len(p)) = p

---------------------------------------------------------------------------
(* Characters *)

UpperToLower ==
    [c \in {"B", "D", "E", "G", "I", "M", "N", "P", "R", "A"} |->
        CASE c = "B" -> "b" [] c = "D" -> "d" [] c = "E" -> "e" [] c = "G" -> "g"
          [] c = "I" -> "i" [] c = "M" -> "m" [] c = "N" -> "n" [] c = "P" -> "p"
          [] c = "R" -> "r" [] c = "A" -> "a"]

LowerLetters ==
    {"a", "b", "c", "d", "e", "f", "g", "h", "i", "l", "m", "n", "o", "p", "r",
     "s", "t", "u", "x", "y"}

IsAlnum(c) == c \in LowerLetters \/ c \in DOMAIN UpperToLower

LowerChar(c) == IF c \in DOMAIN UpperToLower THEN UpperToLower[c] ELSE c

LowerChars(cs) == [i \in 1..Len(cs) |-> LowerChar(cs[i])]

\* String.prototype.toLowerCase
toLowerCase(s) == Str(LowerChars(Spell[s]))

EndsWith(cs, suffix) ==
    Len(suffix) <= Len(cs) /\ SubSeq(cs, Len(cs) - Len(suffix) + 1, Len(cs)) = suffix

---------------------------------------------------------------------------
(* slugify(filename, {lower: true, strict: true, remove: /[*+~.()'"!:@]/g}) *)

SlugRemove == {"*", "+", "~", ".", "(", ")", "'", "!", ":", "@"}

RECURSIVE TrimLeft(_)
TrimLeft(cs) == IF cs # <<>> /\ Head(cs) = " " THEN TrimLeft(Tail(cs)) ELSE cs

RECURSIVE TrimRight(_)
TrimRight(cs) == IF cs # <<>> /\ Last(cs) = " " THEN TrimRight(Front(cs)) ELSE cs

RECURSIVE HyphenateRuns(_)
\* slug.replace(/\s+/g, '-')
HyphenateRuns(cs) ==
    IF cs = <<>> THEN <<>>
    ELSE IF Head(cs) = " " THEN <<"-">> \o HyphenateRuns(TrimLeft(cs))
    ELSE <<Head(cs)>> \o HyphenateRuns(Tail(cs))

Slugify(cs) ==
    LET spaced   == [i \in 1..Len(cs) |-> IF cs[i] = "-" THEN " " ELSE cs[i]]
        removed  == SelectSeq(spaced, LAMBDA c : c \notin SlugRemove)
        strict   == SelectSeq(removed, LAMBDA c : IsAlnum(c) \/ c = " ")
        trimmed  == TrimRight(TrimLeft(strict))
    IN  LowerChars(HyphenateRuns(trimmed))

sanitizeFilename_verbatim(filename) == filename

sanitizeFilename(filename) == Str(Slugify(Spell[filename]))

sanitizeDirectoryPath(dirPath) == [i \in 1..Len(dirPath) |-> sanitizeFilename(dirPath[i])]

---------------------------------------------------------------------------
(* pathe: join, dirname, basename, extname, relative *)

RECURSIVE Normalize(_, _)
\* Segments of a joined path: empty and "." segments dropped, ".." resolved.
Normalize(segs, acc) ==
    IF segs = <<>> THEN acc
    ELSE LET s == Head(segs) IN
         IF s = "" \/ s = "." THEN Normalize(Tail(segs), acc)
         ELSE IF s = ".." /\ acc # <<>> /\ Last(acc) # ".."
              THEN Normalize(Tail(segs), Front(acc))
         ELSE Normalize(Tail(segs), Append(acc, s))

join(a, b) == Normalize(a \o b, <<>>)

dirname(p) == IF Len(p) <= 1 THEN <<".">> ELSE Front(p)

\* basename(path, ext): the last segment, its suffix ext stripped.
basename(p, ext) ==
    LET cs == Spell[Last(p)]
    IN  IF ext # "" /\ EndsWith(cs, Spell[ext])
        THEN Str(SubSeq(cs, 1, Len(cs) - Len(Spell[ext])))
        ELSE Last(p)

\* Index of the last "." of a spelling that has a character before it, or 0.
LastDot(cs) ==
    LET dots == {i \in 2..Len(cs) : cs[i] = "."}
    IN  IF dots = {} THEN 0 ELSE CHOOSE i \in dots : \A j \in dots : j <= i

extname(p) ==
    LET cs == Spell[Last(p)]
    IN  IF LastDot(cs) = 0 THEN "" ELSE Str(SubSeq(cs, LastDot(cs), Len(cs)))

RECURSIVE CommonPrefixLen(_, _)
CommonPrefixLen(a, b) ==
    IF a # <<>> /\ b # <<>> /\ Head(a) = Head(b)
    THEN 1 + CommonPrefixLen(Tail(a), Tail(b))
    ELSE 0

\* relative(from, to): one ".." for each segment of from after the common
\* prefix, then the rest of to.
relative(from, to) ==
    LET f == Normalize(from, <<>>)
        t == Normalize(to, <<>>)
        n == CommonPrefixLen(f, t)
    IN  [i \in 1..(Len(f) - n) |-> ".."] \o SubSeq(t, n + 1, Len(t))

\* Spelling of a whole path string: the segments joined by "/".
RECURSIVE PathChars(_)
PathChars(p) ==
    IF p = <<>> THEN <<>>
    ELSE IF Len(p) = 1 THEN Spell[p[1]]
    ELSE Spell[Head(p)] \o <<"/">> \o PathChars(Tail(p))

---------------------------------------------------------------------------
(* TFile fields of a vault file with path p *)

\* TFile.basename: the name up to its last dot.
FileBasename(p) ==
    LET cs == Spell[Last(p)]
    IN  IF LastDot(cs) = 0 THEN Last(p) ELSE Str(SubSeq(cs, 1, LastDot(cs) - 1))

\* TFile.extension, without the dot.
FileExtension(p) ==
    LET cs == Spell[Last(p)]
    IN  IF LastDot(cs) = 0 THEN <<>> ELSE SubSeq(cs, LastDot(cs) + 1, Len(cs))

\* TFile.parent.path is "/" for a file at the vault root.
ParentIsRoot(p) == Len(p) = 1

---------------------------------------------------------------------------
(* Constructor: the fixed directories *)

FOURSG_OUTPUT_DIR == <<"obsidian-foursg">>

outputPath == FOURSG_OUTPUT_DIR

sitePath == outputPath \o <<"site">>

cssPath == outputPath \o <<"css">>

templatePath == outputPath \o <<"templates">>

\* this.plugin.manifest.dir
pluginDir == <<".obsidian", "plugins", "foursg">>

---------------------------------------------------------------------------
(* Path utilities *)

isIndexName(baseName) == toLowerCase(baseName) = "index"

getOutputPath(filePath) ==
    LET baseName   == basename(filePath, ".md")
        dirName    == dirname(filePath)
        outputName == IF isIndexName(baseName) THEN "index" ELSE sanitizeFilename(baseName)
        htmlName   == Str(Spell[outputName] \o Spell[".html"])
    IN  IF dirName = <<".">>
        THEN join(sitePath, <<htmlName>>)
        ELSE join(sitePath, sanitizeDirectoryPath(dirName) \o <<htmlName>>)

\* A copy path taken from the vault root, not from the working directory.
getImageOutputPath_vaultSite(imagePath) == <<"site">> \o imagePath

getImageOutputPath(imagePath) ==
    LET dirName  == dirname(imagePath)
        fileName == Last(imagePath)
    IN  IF dirName = <<".">>
        THEN join(sitePath, <<fileName>>)
        ELSE join(sitePath, sanitizeDirectoryPath(dirName) \o <<fileName>>)

\* A getRelativePath that starts from the file, not from its directory.
getRelativePath_fromFile(fromPath, toPath) == relative(fromPath, toPath)

getRelativePath(fromPath, toPath) == relative(dirname(fromPath), toPath)

StartsWith(cs, prefix) == Len(prefix) <= Len(cs) /\ SubSeq(cs, 1, Len(prefix)) = prefix

\* A test of the prefix without the separator.
isInOutputPath_prefixOnly(filePath) ==
    StartsWith(PathChars(Normalize(filePath, <<>>)), PathChars(Normalize(outputPath, <<>>)))

isInOutputPath(filePath) ==
    LET normalizedFilePath   == PathChars(Normalize(filePath, <<>>))
        normalizedOutputPath == PathChars(Normalize(outputPath, <<>>))
    IN  \/ StartsWith(normalizedFilePath, normalizedOutputPath \o <<"/">>)
        \/ normalizedFilePath = normalizedOutputPath

---------------------------------------------------------------------------
(* The vault as the DataAdapter sees it.                                   *)
(*   files : file path -> content     dirs : the folders that exist        *)
(*   fresh : the files and folders created or written since the running    *)
(*           command started (history, read by no operation)               *)
(* An operation returns [fs, err]; err is NoError or the error it threw,   *)
(* and an operation applied to a failed result passes the failure on (the  *)
(* exception propagates).  bad is the set of paths on which read, write,   *)
(* list, mkdir, rmdir and remove throw while the current handler runs.     *)

NoError == [op |-> "none", path |-> <<>>]

Ok(F) == [fs |-> F, err |-> NoError]

Throw(F, op, p) == [fs |-> F, err |-> [op |-> op, path |-> p]]

Failed(r) == r.err # NoError

IsFile(F, p) == p \in DOMAIN F.files

IsDir(F, p) == p \in F.dirs

\* DataAdapter.exists
AdapterExists(F, p) == IsFile(F, p) \/ IsDir(F, p)

Prefixes(p) == {SubSeq(p, 1, n) : n \in 1..Len(p)}

Under(dir, p) == Len(p) > Len(dir) /\ IsPrefix(dir, p)

\* DataAdapter.mkdir: creates the folder and its missing ancestors.
AdapterMkdir(F, p, bad) ==
    IF p \in bad \/ \E q \in Prefixes(p) : IsFile(F, q)
    THEN Throw(F, "mkdir", p)
    ELSE Ok([F EXCEPT !.dirs = @ \cup Prefixes(p),
                      !.fresh = @ \cup (Prefixes(p) \ F.dirs)])

\* DataAdapter.write / writeBinary: the parent folder must exist.
AdapterWrite(F, p, content, bad) ==
    IF p \in bad \/ IsDir(F, p) \/ (Len(p) > 1 /\ ~IsDir(F, Front(p)))
    THEN Throw(F, "write", p)
    ELSE Ok([F EXCEPT !.files = (p :> content) @@ @,
                      !.fresh = @ \cup {p}])

\* DataAdapter.read / readBinary, Vault.read: the content is r.val.
AdapterRead(F, p, bad) ==
    IF p \in bad \/ ~IsFile(F, p)
    THEN [fs |-> F, err |-> [op |-> "read", path |-> p], val |-> [kind |-> "none"]]
    ELSE [fs |-> F, err |-> NoError, val |-> F.files[p]]

\* DataAdapter.remove of a file.
AdapterRemove(F, p, bad) ==
    IF p \in bad \/ ~IsFile(F, p)
    THEN Throw(F, "remove", p)
    ELSE Ok([F EXCEPT !.files = [q \in (DOMAIN @) \ {p} |-> @[q]],
                      !.fresh = @ \ {p}])

\* DataAdapter.rmdir(p, false): the folder must be empty.
AdapterRmdir(F, p, bad) ==
    IF \/ p \in bad
       \/ ~IsDir(F, p)
       \/ \E q \in (DOMAIN F.files) \cup F.dirs : Under(p, q)
    THEN Throw(F, "rmdir", p)
    ELSE Ok([F EXCEPT !.dirs = @ \ {p}, !.fresh = @ \ {p}])

\* DataAdapter.list: the files and the folders directly in p.
ListFiles(F, p) == {q \in DOMAIN F.files : Len(q) = Len(p) + 1 /\ IsPrefix(p, q)}

ListFolders(F, p) == {q \in F.dirs : Len(q) = Len(p) + 1 /\ IsPrefix(p, q)}

\* DataAdapter.remove of a path that is a folder (the fallback of
\* removeDirectoryRecursive).  What the adapter does with a folder is not
\* fixed by the code: with rmTree it removes the path, and with it all that
\* lies under it; otherwise it throws.
AdapterRemovePath(F, p, bad, rmTree) ==
    IF IsFile(F, p) THEN AdapterRemove(F, p, bad)
    ELSE IF p \in bad \/ ~rmTree \/ ~IsDir(F, p) THEN Throw(F, "remove", p)
    ELSE Ok([F EXCEPT
            !.files = [q \in {x \in DOMAIN @ : ~IsPrefix(p, x)} |-> @[q]],
            !.dirs  = {x \in @ : ~IsPrefix(p, x)},
            !.fresh = {x \in @ : ~IsPrefix(p, x)}])

---------------------------------------------------------------------------
(* File system operations of SiteGenerator *)

RECURSIVE RemoveFiles(_, _, _)
\* for (const file of items.files) await this.dataAdapter.remove(file)
RemoveFiles(r, files, bad) ==
    IF Failed(r) \/ files = <<>> THEN r
    ELSE RemoveFiles(AdapterRemove(r.fs, Head(files), bad), Tail(files), bad)

RECURSIVE removeDirectoryRecursive(_, _, _, _)
RECURSIVE RemoveFolders(_, _, _, _)
\* for (const folder of items.folders) await this.removeDirectoryRecursive(folder)
RemoveFolders(r, folders, bad, rmTree) ==
    IF Failed(r) \/ folders = <<>> THEN r
    ELSE RemoveFolders(removeDirectoryRecursive(r.fs, Head(folders), bad, rmTree),
                       Tail(folders), bad, rmTree)

\* The try block: list, remove the files, recurse into the folders, rmdir.
StructuredDelete(F, dirPath, bad, rmTree) ==
    IF dirPath \in bad \/ ~IsDir(F, dirPath) THEN Throw(F, "list", dirPath)
    ELSE LET filesGone   == RemoveFiles(Ok(F), SetToSeq(ListFiles(F, dirPath)), bad)
             foldersGone == RemoveFolders(filesGone, SetToSeq(ListFolders(F, dirPath)),
                                          bad, rmTree)
         IN  IF Failed(foldersGone) THEN foldersGone
             ELSE AdapterRmdir(foldersGone.fs, dirPath, bad)

\* A catch block that throws the error of its own remove.
removeDirectoryRecursive_throwsFallback(F, dirPath, bad, rmTree) ==
    IF ~AdapterExists(F, dirPath) THEN Ok(F)
    ELSE LET tried == StructuredDelete(F, dirPath, bad, rmTree)
         IN  IF ~Failed(tried) THEN tried
             ELSE AdapterRemovePath(tried.fs, dirPath, bad, rmTree)

removeDirectoryRecursive(F, dirPath, bad, rmTree) ==
    IF ~AdapterExists(F, dirPath) THEN Ok(F)
    ELSE LET tried == StructuredDelete(F, dirPath, bad, rmTree)
         IN  IF ~Failed(tried) THEN tried
             ELSE LET fallback == AdapterRemovePath(tried.fs, dirPath, bad, rmTree)
                  IN  IF ~Failed(fallback) THEN fallback
                      ELSE [fs |-> fallback.fs, err |-> tried.err]

ensureDirectory(r, dirPath, bad) ==
    IF Failed(r) \/ AdapterExists(r.fs, dirPath) THEN r
    ELSE AdapterMkdir(r.fs, dirPath, bad)

\* A copy that does not look whether the destination exists.
copyUnlessExists_always(r, sourceRelativePath, destinationPath, bad) ==
    IF Failed(r) THEN r
    ELSE LET sourcePath == join(pluginDir, sourceRelativePath)
         IN  IF ~AdapterExists(r.fs, sourcePath) THEN r
             ELSE LET content == AdapterRead(r.fs, sourcePath, bad)
                  IN  IF Failed(content) THEN Throw(r.fs, "read", sourcePath)
                      ELSE AdapterWrite(r.fs, Normalize(destinationPath, <<>>),
                                        content.val, bad)

copyUnlessExists(r, sourceRelativePath, destinationPath, bad) ==
    IF Failed(r) \/ AdapterExists(r.fs, destinationPath) THEN r
    ELSE LET sourcePath == join(pluginDir, sourceRelativePath)
         IN  IF ~AdapterExists(r.fs, sourcePath) THEN r
             ELSE LET content == AdapterRead(r.fs, sourcePath, bad)
                  IN  IF Failed(content) THEN Throw(r.fs, "read", sourcePath)
                      ELSE AdapterWrite(r.fs, Normalize(destinationPath, <<>>),
                                        content.val, bad)

\* A clearOutputDirectory that removes nothing.
clearOutputDirectory_skip(r, bad, rmTree) == r

\* A clearOutputDirectory that removes the working directory.
clearOutputDirectory_working(r, bad, rmTree) ==
    IF Failed(r) THEN r ELSE removeDirectoryRecursive(r.fs, outputPath, bad, rmTree)

clearOutputDirectory(r, bad, rmTree) ==
    IF Failed(r) THEN r ELSE removeDirectoryRecursive(r.fs, sitePath, bad, rmTree)

RECURSIVE CopyCssFiles(_, _, _, _)
\* The loop of copyCSS over the .css files of the css folder.
CopyCssFiles(r, cssFiles, outputDir, bad) ==
    IF Failed(r) \/ cssFiles = <<>> THEN r
    ELSE LET cssFile == Head(cssFiles)
             content == AdapterRead(r.fs, cssFile, bad)
             written ==
                 IF Failed(content) THEN Throw(r.fs, "read", cssFile)
                 ELSE AdapterWrite(r.fs, join(outputDir, <<Last(cssFile)>>),
                                   content.val, bad)
         IN  CopyCssFiles(written, Tail(cssFiles), outputDir, bad)

\* A copyCSS that lists the css folder before it seeds default.css.
copyCSS_listsFirst(r, bad) ==
    LET sourceDir == join(outputPath, <<"css">>)
        outputDir == join(sitePath, <<"css">>)
        ensured   == ensureDirectory(r, outputDir, bad)
        cssFiles  == {f \in ListFiles(ensured.fs, sourceDir) :
                         EndsWith(Spell[Last(f)], Spell[".css"])}
        seeded    == copyUnlessExists(ensured, <<"css", "default.css">>,
                                      join(sourceDir, <<"default.css">>), bad)
    IN  IF Failed(seeded) THEN seeded
        ELSE IF sourceDir \in bad \/ ~IsDir(seeded.fs, sourceDir)
             THEN Throw(seeded.fs, "list", sourceDir)
        ELSE CopyCssFiles(seeded, SetToSeq(cssFiles), outputDir, bad)

copyCSS(r, bad) ==
    LET sourceDir == join(outputPath, <<"css">>)
        outputDir == join(sitePath, <<"css">>)
        ensured   == ensureDirectory(r, outputDir, bad)
        seeded    == copyUnlessExists(ensured, <<"css", "default.css">>,
                                      join(sourceDir, <<"default.css">>), bad)
    IN  IF Failed(seeded) THEN seeded
        ELSE IF sourceDir \in bad \/ ~IsDir(seeded.fs, sourceDir)
             THEN Throw(seeded.fs, "list", sourceDir)
        ELSE LET cssFiles == {f \in ListFiles(seeded.fs, sourceDir) :
                                 EndsWith(Spell[Last(f)], Spell[".css"])}
             IN  CopyCssFiles(seeded, SetToSeq(cssFiles), outputDir, bad)

initializeSite(F, bad, rmTree) ==
    LET siteMade    == ensureDirectory(Ok(F), sitePath, bad)
        cleared     == clearOutputDirectory(siteMade, bad, rmTree)
        tplDir      == ensureDirectory(cleared, templatePath, bad)
        tplSeeded   == copyUnlessExists(tplDir, <<"templates", "default.html">>,
                                        join(templatePath, <<"default.html">>), bad)
        cssDir      == ensureDirectory(tplSeeded, cssPath, bad)
        cssCopied   == copyCSS(cssDir, bad)
    IN  copyUnlessExists(cssCopied, <<"README.md">>, join(outputPath, <<"README.md">>), bad)

---------------------------------------------------------------------------
(* Bounds and inputs *)

\* Documents of the vault of specification Spec.
NumDocs == 6

\* Commands run one after the other in specification SpecRebuild.
MaxRuns == 2

\* Operations that fail during one command.
MaxFaults == 1

\* Folder depth of the documents of specification SpecPaths.
MaxDepth == 2

None == <<>>

Some(x) == <<x>>

Min(a, b) == IF a < b THEN a ELSE b

AllDocs ==
    << <<"index.md">>, <<"a.md">>, <<"blog", "b.md">>, <<"blog", "c.md">>,
       <<"My Docs", "My Post.md">>, <<"d.md">>, <<"blog", "index.md">>, <<"e.md">> >>

Images == << <<"images", "pic.png">>, <<"logo.PNG">> >>

\* metadataCache.getFileCache(file)?.frontmatter; "" is an absent key.
FrontMatter(p) ==
    [site_name      |-> IF p = <<"index.md">> THEN "Demo" ELSE "",
     site_url       |-> IF p = <<"index.md">> THEN "https://demo.test/" ELSE "",
     page_template  |-> IF p = <<"blog", "c.md">> THEN "custom.html"
                        ELSE IF p = <<"blog", "b.md">> THEN "missing.html"
                        ELSE IF p \in {<<"f.md">>, <<"g.md">>} THEN "empty.html" ELSE "",
     published_date |-> IF p = <<"My Docs", "My Post.md">> THEN "not-a-date"
                        ELSE IF p = <<"a.md">> THEN "2024-01-01" ELSE "",
     changefreq     |-> IF p = <<"My Docs", "a.md">> THEN "daily" ELSE "",
     priority       |-> IF p = <<"My Docs", "a.md">> THEN "0.3" ELSE ""]

Source == [kind |-> "source"]

PluginFiles ==
    (join(pluginDir, <<"templates", "default.html">>) :> [kind |-> "template", text |-> "plugin"]) @@
    (join(pluginDir, <<"css", "default.css">>) :> [kind |-> "css", text |-> "plugin"]) @@
    (join(pluginDir, <<"README.md">>) :> [kind |-> "readme", text |-> "plugin"])

InputFiles(docs) == [p \in Range(docs) \cup Range(Images) |-> Source]

InputDirs(docs) == UNION {Prefixes(Front(p)) : p \in Range(docs) \cup Range(Images)}

\* The vault before the first generation.
FirstRunFs(docs) ==
    [files |-> InputFiles(docs) @@ PluginFiles,
     dirs  |-> InputDirs(docs) \cup Prefixes(pluginDir)
                 \cup {pluginDir \o <<"templates">>, pluginDir \o <<"css">>},
     fresh |-> {}]

\* A vault whose working directory the user has customized and whose site
\* directory holds what an earlier generation left.
UsedFs(docs) ==
    [files |-> InputFiles(docs) @@ PluginFiles @@
               (join(templatePath, <<"default.html">>) :> [kind |-> "template", text |-> "user"]) @@
               (join(templatePath, <<"custom.html">>) :> [kind |-> "template", text |-> "custom"]) @@
               (join(cssPath, <<"default.css">>) :> [kind |-> "css", text |-> "user"]) @@
               (join(outputPath, <<"README.md">>) :> [kind |-> "readme", text |-> "user"]) @@
               (join(outputPath, <<"robots.txt">>) :> [kind |-> "robots", text |-> "user"]) @@
               (join(sitePath, <<"old.html">>) :> [kind |-> "stale"]) @@
               (join(sitePath, <<"old", "old.html">>) :> [kind |-> "stale"]),
     dirs  |-> InputDirs(docs) \cup Prefixes(pluginDir)
                 \cup {pluginDir \o <<"templates">>, pluginDir \o <<"css">>}
                 \cup {outputPath, templatePath, cssPath, sitePath, sitePath \o <<"old">>},
     fresh |-> {}]

---------------------------------------------------------------------------
(* State *)

VARIABLES
    vault,                \* the listing of the input files, in listing order
    fs,                   \* the vault's files and folders
    runsLeft,             \* commands still to run
    cmd,                  \* the command running or last run
    pc,                   \* where generateSite is
    notices,              \* the Notices of the command
    siteName, siteUrl,
    sitemapGenerator,     \* None, or Some([hostname, urls])
    cachedMarkdownFiles,  \* None, or Some(listing)
    cachedImageFiles,
    templateCache,        \* template path -> content
    processedFiles,
    i,                    \* the batch loop's index
    task,                 \* per filtered document: where processMarkdownFile is
    imgIdx,               \* the next image of copyImages
    log,                  \* the pipeline steps completed by the run
    faults,               \* operations that failed during the command
    prevSite,             \* Some(site files a clean run before this run left)
    rewritten,            \* the last result of convertWikiLinks (SpecPaths)
    navTree               \* the last result of buildNavigationTree (SpecPaths)

instVars == <<siteName, siteUrl, sitemapGenerator, cachedMarkdownFiles,
              cachedImageFiles, templateCache, processedFiles>>

runVars == <<i, task, imgIdx>>

callVars == <<rewritten, navTree>>

vars == <<vault, fs, runsLeft, cmd, pc, notices, instVars, runVars, log,
          faults, prevSite, callVars>>

NoPage == [kind |-> "none"]

Notice(kind, err) == [kind |-> kind, err |-> err]

Settled == {"written", "failed", "skipped"}

InFlight == {"reading", "loadingTemplate", "ensuring", "writing"}

\* Files under the working directory, as the vault lists them.
WorkingFiles(F) == SetToSeq({p \in DOMAIN F.files : IsPrefix(outputPath, p)})

\* Vault.getFiles
getFiles(F, listing) ==
    SelectSeq(listing, LAMBDA p : IsFile(F, p)) \o WorkingFiles(F)

\* Vault.getMarkdownFiles
getMarkdownFiles(F, listing) ==
    SelectSeq(getFiles(F, listing), LAMBDA p : FileExtension(p) = <<"m", "d">>)

IMAGE_EXTENSIONS == {".png", ".jpg", ".jpeg", ".gif", ".svg", ".webp"}

FilteredMarkdownFiles(F, listing) ==
    SelectSeq(getMarkdownFiles(F, listing), LAMBDA p : ~isInOutputPath(p))

FilteredImageFiles(F, listing) ==
    SelectSeq(getFiles(F, listing),
              LAMBDA p : /\ ~isInOutputPath(p)
                         /\ extname(p) # ""
                         /\ LowerChars(Spell[extname(p)]) \in {Spell[e] : e \in IMAGE_EXTENSIONS})

---------------------------------------------------------------------------
(* Cache management *)

\* A cacheClearAll that keeps the template cache.
cacheClearAll_keepsTemplates ==
    /\ cachedMarkdownFiles' = None
    /\ cachedImageFiles' = None
    /\ templateCache' = templateCache
    /\ processedFiles' = {}

cacheClearAll ==
    /\ cachedMarkdownFiles' = None
    /\ cachedImageFiles' = None
    /\ templateCache' = <<>>
    /\ processedFiles' = {}

getFilteredMarkdownFiles ==
    IF cachedMarkdownFiles = None THEN FilteredMarkdownFiles(fs, vault)
    ELSE cachedMarkdownFiles[1]

getFilteredImageFiles ==
    IF cachedImageFiles = None THEN FilteredImageFiles(fs, vault)
    ELSE cachedImageFiles[1]

---------------------------------------------------------------------------
(* File resolution and link rewriting *)

\* The body of a document: its references [[target]] or [[target|label]]
\* and embeds ![[image]], in order.  A target is given as the segments of
\* the text between the brackets; label is <<>> when the reference has no
\* "|label" part.
Body(p) ==
    IF p = <<"blog", "b.md">>
    THEN << [type |-> "link", target |-> <<"index">>, label |-> <<>>] >>
    ELSE IF p = <<"a.md">>
         THEN << [type |-> "link", target |-> <<"blog", "c.md">>, label |-> <<>>],
                 [type |-> "embed", target |-> <<"pic.png">>, label |-> <<>>] >>
    ELSE IF p = <<"obsidian-foursg-notes", "h.md">>
         THEN << [type |-> "link", target |-> <<"README">>, label |-> <<>>],
                 [type |-> "embed", target |-> <<"obsidian-foursg", "logo.PNG">>,
                  label |-> <<>>] >>
    ELSE IF p = <<"index.md">>
         THEN << [type |-> "link", target |-> <<"missing">>, label |-> <<>>],
                 [type |-> "embed", target |-> <<"nopic.png">>, label |-> <<>>],
                 [type |-> "link", target |-> <<"missing">>, label |-> <<"Label">>] >>
    ELSE <<>>

Mtime(p) == "2024-01-01"

\* linkName.replace(/\.md$/, '')
CleanLink(linkChars) ==
    IF EndsWith(linkChars, Spell[".md"])
    THEN SubSeq(linkChars, 1, Len(linkChars) - 3)
    ELSE linkChars

\* The first file of a listing among those at the indexes hits (the file a
\* for loop over the listing returns first), or None.
FirstAt(files, hits) ==
    IF hits = {} THEN None
    ELSE Some(files[CHOOSE k \in hits : \A j \in hits : k <= j])

findTargetFile(linkName, files) ==
    LET cleanLink == CleanLink(PathChars(linkName))
        byPath == FirstAt(files, {k \in DOMAIN files :
                      \/ PathChars(files[k]) = cleanLink \o Spell[".md"]
                      \/ PathChars(files[k]) = cleanLink})
    IN  IF byPath # None THEN byPath
        ELSE FirstAt(files, {k \in DOMAIN files : Spell[FileBasename(files[k])] = cleanLink})

findImageFile(imageName, imageFiles) ==
    FirstAt(imageFiles, {k \in DOMAIN imageFiles :
        \/ PathChars(imageFiles[k]) = PathChars(imageName)
        \/ Spell[Last(imageFiles[k])] = PathChars(imageName)
        \/ Spell[FileBasename(imageFiles[k])] = PathChars(imageName)})

BrokenLink == <<"#broken-link">>

BrokenImage == <<"#broken-image">>

\* parts[1] ? parts[1].trim() : link
displayText(item) == IF item.label # <<>> THEN item.label ELSE item.target

\* A convertWikiLinks that leaves an unresolved reference without a
\* destination.
convertWikiLink_noFragment(item, file, files) ==
    LET targetFile == findTargetFile(item.target, files)
    IN  IF targetFile = None
        THEN [kind |-> "a", text |-> displayText(item), href |-> <<>>]
        ELSE [kind |-> "a", text |-> displayText(item),
              href |-> getRelativePath(getOutputPath(file), getOutputPath(targetFile[1]))]

\* One [[...]] of convertWikiLinks: the link that replaces it.
convertWikiLink(item, file, files) ==
    LET targetFile == findTargetFile(item.target, files)
    IN  IF targetFile = None
        THEN [kind |-> "a", text |-> displayText(item), href |-> BrokenLink]
        ELSE [kind |-> "a", text |-> displayText(item),
              href |-> getRelativePath(getOutputPath(file), getOutputPath(targetFile[1]))]

\* One ![[...]] of convertImageEmbeds.
convertImageEmbed(item, file, imageFiles) ==
    LET imageFile == findImageFile(item.target, imageFiles)
    IN  IF imageFile = None
        THEN [kind |-> "img", text |-> item.target, href |-> BrokenImage]
        ELSE [kind |-> "img", text |-> <<>>,
              href |-> getRelativePath(getOutputPath(file), getImageOutputPath(imageFile[1]))]

markdownToHTML(content, file, files, imageFiles) ==
    [k \in 1..Len(content) |->
        IF content[k].type = "link" THEN convertWikiLink(content[k], file, files)
        ELSE convertImageEmbed(content[k], file, imageFiles)]

HasEmbed(content) == \E k \in 1..Len(content) : content[k].type = "embed"

---------------------------------------------------------------------------
(* Sitemap and page rendering *)

getPageUrl(outputFilePath) ==
    IF Under(sitePath, outputFilePath)
    THEN SubSeq(outputFilePath, Len(sitePath) + 1, Len(outputFilePath))
    ELSE outputFilePath

getChangeFreq(filePath) ==
    IF toLowerCase(basename(filePath, ".md")) = "index" THEN "weekly" ELSE "monthly"

getPriority_caseSensitive(filePath) ==
    IF basename(filePath, ".md") = "index"
    THEN (IF Len(filePath) = 1 THEN "1.0" ELSE "0.8")
    ELSE "0.6"

getPriority(filePath) ==
    IF toLowerCase(basename(filePath, ".md")) = "index"
    THEN (IF Len(filePath) = 1 THEN "1.0" ELSE "0.8")
    ELSE "0.6"

SitemapUrl(file, outputFilePath) ==
    LET frontMatter == FrontMatter(file)
    IN  [loc        |-> getPageUrl(outputFilePath),
         lastmod    |-> Mtime(file),
         changefreq |-> IF frontMatter.changefreq # "" THEN frontMatter.changefreq
                        ELSE getChangeFreq(file),
         priority   |-> IF frontMatter.priority # "" THEN frontMatter.priority
                        ELSE getPriority(file)]

\* SitemapGenerator.addUrl
addUrl(gen, url) == [gen EXCEPT !.urls = Append(@, url)]

\* new SitemapGenerator(hostname): hostname.replace(/\/$/, '')
NewSitemapGenerator(hostname) ==
    LET cs == Spell[hostname]
    IN  [hostname |-> IF cs # <<>> /\ Last(cs) = "/" THEN Str(Front(cs)) ELSE hostname,
         urls     |-> <<>>]

\* SitemapGenerator.toXml: the entries in the order of urls.
toXml(gen) ==
    [kind    |-> "sitemap",
     entries |-> [k \in 1..Len(gen.urls) |->
                    [loc        |-> <<gen.hostname>> \o gen.urls[k].loc,
                     lastmod    |-> gen.urls[k].lastmod,
                     changefreq |-> gen.urls[k].changefreq,
                     priority   |-> gen.urls[k].priority]]]

TemplateOf(file) ==
    LET templateName == IF FrontMatter(file).page_template # ""
                        THEN FrontMatter(file).page_template ELSE "default.html"
    IN  join(templatePath, <<templateName>>)

\* A page that carries the number of sitemap entries added before its own.
RenderPage_numbered(template, content, file, outputFilePath) ==
    [kind         |-> "page",
     src          |-> file,
     template     |-> template.text,
     content      |-> content,
     siteName     |-> siteName,
     canonicalUrl |-> <<siteUrl>> \o getPageUrl(outputFilePath),
     entries      |-> Len(sitemapGenerator[1].urls)]

\* Mustache.render(template, {...}) of wrapInTemplate.
RenderPage(template, content, file, outputFilePath) ==
    [kind         |-> "page",
     src          |-> file,
     template     |-> template.text,
     content      |-> content,
     siteName     |-> siteName,
     canonicalUrl |-> <<siteUrl>> \o getPageUrl(outputFilePath)]


---------------------------------------------------------------------------
(* Navigation tree *)

\* The order String.prototype.localeCompare gives the characters of the
\* model's paths: blank and punctuation before letters, letters by alphabet.
CollationOrder ==
    <<" ", "-", ":", "!", ".", "/", "a", "b", "c", "d", "e", "f", "g", "h", "i",
      "j", "k", "l", "m", "n", "o", "p", "q", "r", "s", "t", "u", "v", "w", "x",
      "y", "z">>

CollationRank(c) ==
    CHOOSE k \in 1..Len(CollationOrder) : CollationOrder[k] = LowerChar(c)

\* The comparison of the letters without their case: -1, 0 or 1.
RECURSIVE PrimaryCompare(_, _)
PrimaryCompare(a, b) ==
    IF a = <<>> THEN (IF b = <<>> THEN 0 ELSE -1)
    ELSE IF b = <<>> THEN 1
    ELSE IF CollationRank(Head(a)) < CollationRank(Head(b)) THEN -1
    ELSE IF CollationRank(Head(a)) > CollationRank(Head(b)) THEN 1
    ELSE PrimaryCompare(Tail(a), Tail(b))

\* For texts equal up to case: the lower-case letter first at the first
\* difference.
RECURSIVE CaseCompare(_, _)
CaseCompare(a, b) ==
    IF a = <<>> \/ b = <<>> THEN 0
    ELSE IF Head(a) = Head(b) THEN CaseCompare(Tail(a), Tail(b))
    ELSE IF Head(b) \in DOMAIN UpperToLower THEN -1 ELSE 1

\* a.localeCompare(b)
localeCompare(a, b) ==
    IF PrimaryCompare(a, b) # 0 THEN PrimaryCompare(a, b) ELSE CaseCompare(a, b)

\* files.sort((a, b) => a.path.localeCompare(b.path)): a stable sort.
RECURSIVE SortByPath(_)
SortByPath(files) ==
    IF files = <<>> THEN <<>>
    ELSE LET sorted == SortByPath(Front(files))
             x      == Last(files)
             k      == Cardinality({j \in DOMAIN sorted :
                           localeCompare(PathChars(sorted[j]), PathChars(x)) <= 0})
         IN  SubSeq(sorted, 1, k) \o <<x>> \o SubSeq(sorted, k + 1, Len(sorted))

\* A NavNode. The tree is held as the sequence of its nodes in the order
\* they are created, each with the index of the node whose children it
\* was pushed to (0: rootNodes); children are pushed once, on creation.
NavNode(name, path, out, parent, isIndex) ==
    [name |-> name, path |-> path, outputPath |-> out, parent |-> parent,
     isIndex |-> isIndex]

EmptyTree == [nodes |-> <<>>, dirMap |-> <<>>]

newDirNode_atRoot(T, part, currentPath, parentPath) ==
    NavNode(part, currentPath, <<>>, 0, FALSE)

\* The node of a folder seen for the first time, pushed to the children
\* of its parent folder's node or to rootNodes.
newDirNode(T, part, currentPath, parentPath) ==
    NavNode(part, currentPath, <<>>,
            IF parentPath # <<>> THEN T.dirMap[parentPath] ELSE 0, FALSE)

\* The loop over parts[0 .. length - 2], from index k.
RECURSIVE ensureDirNodes(_, _, _)
ensureDirNodes(T, parts, k) ==
    IF k > Len(parts) - 1 THEN T
    ELSE LET currentPath == SubSeq(parts, 1, k)
             parentPath  == SubSeq(parts, 1, k - 1)
         IN  IF currentPath \in DOMAIN T.dirMap
             THEN ensureDirNodes(T, parts, k + 1)
             ELSE ensureDirNodes(
                      [nodes  |-> Append(T.nodes,
                                         newDirNode(T, parts[k], currentPath, parentPath)),
                       dirMap |-> T.dirMap @@ (currentPath :> Len(T.nodes) + 1)],
                      parts, k + 1)

\* The body of the loop over the sorted files.
addNavFile(T, file) ==
    LET isIndex == toLowerCase(FileBasename(file)) = "index"
    IN  IF Len(file) = 1
        THEN [T EXCEPT !.nodes = Append(@, NavNode(FileBasename(file), file,
                                                   getOutputPath(file), 0, isIndex))]
        ELSE LET D == ensureDirNodes(T, file, 1)
                 d == D.dirMap[Front(file)]
             IN  IF isIndex
                 THEN [D EXCEPT !.nodes[d].outputPath = getOutputPath(file),
                                !.nodes[d].isIndex = TRUE]
                 ELSE [D EXCEPT !.nodes = Append(@, NavNode(FileBasename(file), file,
                                                            getOutputPath(file), d, FALSE))]

RECURSIVE addNavFiles(_, _)
addNavFiles(T, files) ==
    IF files = <<>> THEN T ELSE addNavFiles(addNavFile(T, Head(files)), Tail(files))

buildNavigationTree(files) == addNavFiles(EmptyTree, SortByPath(files)).nodes
---------------------------------------------------------------------------
(* Commands: src/main.ts *)

\* A batch loop that takes one document more.
batchSize_six == 5 + 1

batchSize == 5

Idle == pc \in {"idle", "Done", "Failed"}

SiteFiles(F) == [p \in {q \in DOMAIN F.files : Under(sitePath, q)} |-> F.files[p]]

Inject(n) == /\ faults + n <= MaxFaults
             /\ faults' = faults + n

\* The paths a handler's operations may fail on.
FaultSets(paths) == {bad \in SUBSET paths : Cardinality(bad) <= MaxFaults - faults}

\* A catch block that shows nothing.
CatchAndFinally_silent(error) ==
    /\ notices' = notices
    /\ cacheClearAll
    /\ pc' = "Failed"

\* catch (error) { new Notice(error) } finally { cacheClearAll() }
CatchAndFinally(error) ==
    /\ notices' = Append(notices, Notice("error", error))
    /\ cacheClearAll
    /\ pc' = "Failed"

\* 'Generate static site': new SiteGenerator(this), generateSite() up to
\* the call of initializeSite.
GenerateSiteCommand ==
    /\ Idle
    /\ runsLeft > 0
    /\ runsLeft' = runsLeft - 1
    /\ cmd' = "generate"
    /\ pc' = "initializeSite"
    /\ notices' = <<Notice("start", NoError)>>
    /\ siteName' = "My Site"
    /\ siteUrl' = "https://example.com"
    /\ sitemapGenerator' = None
    /\ cacheClearAll
    /\ i' = 0
    /\ task' = <<>>
    /\ imgIdx' = 0
    /\ log' = <<>>
    /\ faults' = 0
    /\ fs' = [fs EXCEPT !.fresh = {}]
    /\ prevSite' = IF cmd = "generate" /\ pc = "Done" /\ faults = 0
                   THEN Some(SiteFiles(fs)) ELSE None
    /\ UNCHANGED <<vault, callVars>>

\* 'Clear output directory'.
ClearOutputDirectoryCommand ==
    /\ Idle
    /\ runsLeft > 0
    /\ runsLeft' = runsLeft - 1
    /\ cmd' = "clear"
    /\ pc' = "idle"
    /\ \E bad \in {b \in SUBSET ({sitePath} \cup {p \in (DOMAIN fs.files) \cup fs.dirs : Under(sitePath, p)}) :
                      Cardinality(b) <= MaxFaults},
          rmTree \in BOOLEAN :
          LET r == clearOutputDirectory(Ok([fs EXCEPT !.fresh = {}]), bad, rmTree)
          IN  /\ fs' = r.fs
              /\ faults' = Cardinality(bad)
              /\ notices' = <<Notice("clearing", NoError),
                              IF Failed(r) THEN Notice("clear-error", r.err)
                              ELSE Notice("cleared", NoError)>>
    /\ siteName' = "My Site"
    /\ siteUrl' = "https://example.com"
    /\ sitemapGenerator' = None
    /\ cacheClearAll
    /\ i' = 0
    /\ task' = <<>>
    /\ imgIdx' = 0
    /\ log' = <<>>
    /\ prevSite' = None
    /\ UNCHANGED <<vault, callVars>>

---------------------------------------------------------------------------
(* generateSite *)

InitPaths(F) ==
    {sitePath, templatePath, cssPath, join(sitePath, <<"css">>),
     join(templatePath, <<"default.html">>), join(cssPath, <<"default.css">>),
     join(sitePath, <<"css", "default.css">>), join(outputPath, <<"README.md">>)}
    \cup {p \in (DOMAIN F.files) \cup F.dirs : Under(sitePath, p)}

\* await this.initializeSite()
InitializeSite ==
    /\ pc = "initializeSite"
    /\ \E bad \in FaultSets(InitPaths(fs)), rmTree \in BOOLEAN :
          LET r == initializeSite(fs, bad, rmTree)
          IN  /\ fs' = r.fs
              /\ faults' = faults + Cardinality(bad)
              /\ IF Failed(r)
                 THEN /\ CatchAndFinally(r.err)
                      /\ UNCHANGED log
                 ELSE /\ pc' = "loadSiteName"
                      /\ log' = Append(log, "initializeSite")
                      /\ UNCHANGED <<notices, cachedMarkdownFiles, cachedImageFiles,
                                     templateCache, processedFiles>>
    /\ UNCHANGED <<vault, runsLeft, cmd, siteName, siteUrl, sitemapGenerator,
                   runVars, prevSite, callVars>>

\* The root index document of loadSiteName, or None.
IndexFile(F, listing) ==
    LET markdownFiles == getMarkdownFiles(F, listing)
    IN  FirstAt(markdownFiles, {k \in DOMAIN markdownFiles :
            /\ ParentIsRoot(markdownFiles[k])
            /\ toLowerCase(FileBasename(markdownFiles[k])) = "index"})

loadedSiteName(F, listing) ==
    IF IndexFile(F, listing) = None THEN "My Site"
    ELSE LET frontMatter == FrontMatter(IndexFile(F, listing)[1])
         IN  IF frontMatter.site_name # "" THEN frontMatter.site_name ELSE "My Site"

loadedSiteUrl(F, listing) ==
    IF IndexFile(F, listing) = None THEN "https://example.com"
    ELSE LET frontMatter == FrontMatter(IndexFile(F, listing)[1])
         IN  IF frontMatter.site_url # "" THEN frontMatter.site_url
             ELSE "https://example.com"

\* await this.loadSiteName(); new SitemapGenerator; cacheClearAll();
\* getFilteredMarkdownFiles(); and the batch loop's i = 0.
LoadSiteName ==
    /\ pc = "loadSiteName"
    /\ siteName' = loadedSiteName(fs, vault)
    /\ siteUrl' = loadedSiteUrl(fs, vault)
    /\ sitemapGenerator' = Some(NewSitemapGenerator(siteUrl'))
    /\ cachedMarkdownFiles' = Some(FilteredMarkdownFiles(fs, vault))
    /\ cachedImageFiles' = None
    /\ templateCache' = <<>>
    /\ processedFiles' = {}
    /\ i' = 0
    /\ task' = [d \in 1..Len(cachedMarkdownFiles'[1]) |-> [pc |-> "pending", page |-> NoPage]]
    /\ pc' = "processing"
    /\ log' = Append(log, "loadSiteName")
    /\ UNCHANGED <<vault, fs, runsLeft, cmd, notices, imgIdx, faults, prevSite, callVars>>

NumFiles == Len(task)

BatchOf(start) == (start + 1)..Min(start + batchSize, NumFiles)

\* A processMarkdownFile that adds the path to processedFiles after its
\* first await.
StartedTasks_addAfterAwait(batch) ==
    [d \in 1..NumFiles |->
        IF d \notin batch THEN task[d]
        ELSE IF getFilteredMarkdownFiles[d] \in processedFiles
             THEN [pc |-> "skipped", page |-> NoPage]
             ELSE [pc |-> "reading", page |-> NoPage]]

\* processMarkdownFile up to its first await, for the documents of a batch
\* in order: a path already in processedFiles is skipped.
StartedTasks(batch) ==
    [d \in 1..NumFiles |->
        IF d \notin batch THEN task[d]
        ELSE IF \/ getFilteredMarkdownFiles[d] \in processedFiles
                \/ \E e \in batch : e < d /\ getFilteredMarkdownFiles[e] = getFilteredMarkdownFiles[d]
             THEN [pc |-> "skipped", page |-> NoPage]
             ELSE [pc |-> "reading", page |-> NoPage]]

\* A batch loop that does not await its batch.
BatchSettled_noAwait == TRUE

\* A Promise.all that settles with the first failure of its batch.
BatchSettled_failFast ==
    \/ \E d \in 1..NumFiles : task[d].pc = "failed"
    \/ \A d \in 1..NumFiles : task[d].pc \notin InFlight

BatchSettled == \A d \in 1..NumFiles : task[d].pc \notin InFlight

\* One turn of the batch loop: when the Promise.all of the batch before has
\* resolved, the next batch starts; after the last batch copyImages starts.
NextBatch ==
    /\ pc = "processing"
    /\ BatchSettled
    /\ IF i < NumFiles
       THEN /\ task' = StartedTasks(BatchOf(i))
            /\ processedFiles' = processedFiles \cup {getFilteredMarkdownFiles[d] : d \in BatchOf(i)}
            /\ i' = i + batchSize
            /\ UNCHANGED <<pc, log, imgIdx, cachedImageFiles>>
       ELSE /\ cachedImageFiles' = Some(getFilteredImageFiles)
            /\ imgIdx' = 1
            /\ IF getFilteredImageFiles = <<>>
               THEN /\ pc' = "generateSitemap"
                    /\ log' = log \o <<"processMarkdownFiles", "copyImages">>
               ELSE /\ pc' = "copyImages"
                    /\ log' = Append(log, "processMarkdownFiles")
            /\ UNCHANGED <<task, processedFiles, i>>
    /\ UNCHANGED <<vault, fs, runsLeft, cmd, notices, siteName, siteUrl, sitemapGenerator,
                   cachedMarkdownFiles, templateCache, faults, prevSite, callVars>>

\* new Date(value).toISOString() throws a RangeError.
InvalidDate(value) == value = "not-a-date"

SetTask(d, newPc, page) == task' = [task EXCEPT ![d] = [pc |-> newPc, page |-> page]]

\* wrapInTemplate once the template is at hand, to the return of
\* Mustache.render, and processMarkdownFile on to the await in
\* ensureDirectory.  generateSeoData throws before addUrl, Mustache.render
\* after it.
Rendered(d, template, outcome) ==
    LET file           == getFilteredMarkdownFiles[d]
        outputFilePath == getOutputPath(file)
        html           == markdownToHTML(Body(file), file, getFilteredMarkdownFiles,
                                         getFilteredImageFiles)
        added          == Some(addUrl(sitemapGenerator[1], SitemapUrl(file, outputFilePath)))
    IN  CASE outcome = "seoThrows" \/ InvalidDate(FrontMatter(file).published_date) ->
               /\ SetTask(d, "failed", NoPage)
               /\ UNCHANGED sitemapGenerator
          [] outcome = "renderThrows" ->
               /\ SetTask(d, "failed", NoPage)
               /\ sitemapGenerator' = added
          [] OTHER ->
               /\ SetTask(d, "ensuring", RenderPage(template, html, file, outputFilePath))
               /\ sitemapGenerator' = added

Truthy(template) == template.text # ""

Cached(templateFile) ==
    templateFile \in DOMAIN templateCache /\ Truthy(templateCache[templateFile])

\* processMarkdownFile from the return of vault.read to the next await.
ReadDone ==
    \E d \in 1..NumFiles :
    /\ pc = "processing"
    /\ task[d].pc = "reading"
    /\ LET file == getFilteredMarkdownFiles[d]
       IN  \E outcome \in {"ok", "readThrows", "seoThrows", "renderThrows"} :
             /\ Inject(IF outcome = "ok" THEN 0 ELSE 1)
             /\ IF outcome = "readThrows" \/ ~IsFile(fs, file)
                THEN /\ SetTask(d, "failed", NoPage)
                     /\ UNCHANGED <<sitemapGenerator, cachedImageFiles>>
                ELSE /\ cachedImageFiles' = IF HasEmbed(Body(file))
                                            THEN Some(getFilteredImageFiles)
                                            ELSE cachedImageFiles
                     /\ IF Cached(TemplateOf(file))
                        THEN Rendered(d, templateCache[TemplateOf(file)], outcome)
                        ELSE /\ outcome = "ok"
                             /\ SetTask(d, "loadingTemplate", NoPage)
                             /\ UNCHANGED sitemapGenerator
    /\ UNCHANGED <<vault, fs, runsLeft, cmd, pc, notices, siteName, siteUrl,
                   cachedMarkdownFiles, templateCache, processedFiles, i, imgIdx,
                   log, prevSite, callVars>>

\* wrapInTemplate from the return of dataAdapter.read(templatePath).
TemplateLoaded ==
    \E d \in 1..NumFiles :
    /\ pc = "processing"
    /\ task[d].pc = "loadingTemplate"
    /\ LET file == getFilteredMarkdownFiles[d]
       IN  \E outcome \in {"ok", "readThrows", "seoThrows", "renderThrows"} :
             /\ Inject(IF outcome = "ok" THEN 0 ELSE 1)
             /\ LET template == AdapterRead(fs, TemplateOf(file),
                                            IF outcome = "readThrows" THEN {TemplateOf(file)} ELSE {})
                IN  IF Failed(template)
                    THEN /\ SetTask(d, "failed", NoPage)
                         /\ UNCHANGED <<sitemapGenerator, templateCache>>
                    ELSE /\ templateCache' = (TemplateOf(file) :> template.val) @@ templateCache
                         /\ Rendered(d, template.val, outcome)
    /\ UNCHANGED <<vault, fs, runsLeft, cmd, pc, notices, siteName, siteUrl,
                   cachedMarkdownFiles, cachedImageFiles, processedFiles, i, imgIdx,
                   log, prevSite, callVars>>

OutputDirOf(d) == dirname(getOutputPath(getFilteredMarkdownFiles[d]))

\* await this.ensureDirectory(outputDir): exists, and mkdir when it does not.
DirEnsured ==
    \E d \in 1..NumFiles :
    /\ pc = "processing"
    /\ task[d].pc = "ensuring"
    /\ \E bad \in FaultSets({OutputDirOf(d)}) :
          /\ faults' = faults + Cardinality(bad)
          /\ LET r == ensureDirectory(Ok(fs), OutputDirOf(d), bad)
             IN  /\ fs' = r.fs
                 /\ IF Failed(r) THEN SetTask(d, "failed", NoPage)
                    ELSE SetTask(d, "writing", task[d].page)
    /\ UNCHANGED <<vault, runsLeft, cmd, pc, notices, instVars, i, imgIdx, log,
                   prevSite, callVars>>

\* processMarkdownFile from the return of dataAdapter.write.
Written ==
    \E d \in 1..NumFiles :
    /\ pc = "processing"
    /\ task[d].pc = "writing"
    /\ \E fail \in BOOLEAN :
          /\ Inject(IF fail THEN 1 ELSE 0)
          /\ LET outputFilePath == Normalize(getOutputPath(getFilteredMarkdownFiles[d]), <<>>)
                 r == AdapterWrite(fs, outputFilePath, task[d].page,
                                   IF fail THEN {outputFilePath} ELSE {})
             IN  /\ fs' = r.fs
                 /\ IF Failed(r) THEN SetTask(d, "failed", NoPage)
                    ELSE SetTask(d, "written", NoPage)
    /\ UNCHANGED <<vault, runsLeft, cmd, pc, notices, instVars, i, imgIdx, log,
                   prevSite, callVars>>

\* One image of copyImages: readBinary, ensureDirectory, writeBinary; an
\* error is caught and the loop goes on.
copyImage(F, file, bad) ==
    LET arrayBuffer == AdapterRead(F, file, bad)
        outputFile  == getImageOutputPath(file)
        ensured     == ensureDirectory(Ok(F), dirname(outputFile), bad)
    IN  IF Failed(arrayBuffer) THEN Ok(F)
        ELSE IF Failed(ensured) THEN Ok(ensured.fs)
        ELSE LET r == AdapterWrite(ensured.fs, Normalize(outputFile, <<>>), arrayBuffer.val, bad)
             IN  Ok(r.fs)

\* A copyImages without the try and catch around one image.
CopyImage_uncaught ==
    /\ pc = "copyImages"
    /\ imgIdx <= Len(getFilteredImageFiles)
    /\ LET file == getFilteredImageFiles[imgIdx]
       IN  \E bad \in FaultSets({file, dirname(getImageOutputPath(file)), getImageOutputPath(file)}) :
             /\ faults' = faults + Cardinality(bad)
             /\ fs' = copyImage(fs, file, bad).fs
             /\ IF bad # {}
                THEN /\ CatchAndFinally([op |-> "copy", path |-> file])
                     /\ UNCHANGED <<imgIdx, log>>
                ELSE /\ imgIdx' = imgIdx + 1
                     /\ IF imgIdx' > Len(getFilteredImageFiles)
                        THEN pc' = "generateSitemap" /\ log' = Append(log, "copyImages")
                        ELSE pc' = "copyImages" /\ UNCHANGED log
                     /\ UNCHANGED <<notices, cachedMarkdownFiles, cachedImageFiles,
                                    templateCache, processedFiles>>
    /\ UNCHANGED <<vault, runsLeft, cmd, siteName, siteUrl, sitemapGenerator, i, task,
                   prevSite, callVars>>

CopyImage ==
    /\ pc = "copyImages"
    /\ imgIdx <= Len(getFilteredImageFiles)
    /\ LET file == getFilteredImageFiles[imgIdx]
       IN  \E bad \in FaultSets({file, dirname(getImageOutputPath(file)), getImageOutputPath(file)}) :
             /\ faults' = faults + Cardinality(bad)
             /\ fs' = copyImage(fs, file, bad).fs
    /\ imgIdx' = imgIdx + 1
    /\ IF imgIdx' > Len(getFilteredImageFiles)
       THEN pc' = "generateSitemap" /\ log' = Append(log, "copyImages")
       ELSE pc' = "copyImages" /\ UNCHANGED log
    /\ UNCHANGED <<vault, runsLeft, cmd, notices, instVars, i, task, prevSite, callVars>>

\* await this.generateSitemap()
GenerateSitemap ==
    /\ pc = "generateSitemap"
    /\ \E bad \in FaultSets({join(sitePath, <<"sitemap.xml">>)}) :
          LET r == IF sitemapGenerator = None THEN Ok(fs)
                   ELSE AdapterWrite(fs, join(sitePath, <<"sitemap.xml">>),
                                     toXml(sitemapGenerator[1]), bad)
          IN  /\ fs' = r.fs
              /\ faults' = faults + Cardinality(bad)
              /\ IF Failed(r)
                 THEN /\ CatchAndFinally(r.err)
                      /\ UNCHANGED log
                 ELSE /\ pc' = "generateRobotsTxt"
                      /\ log' = Append(log, "generateSitemap")
                      /\ UNCHANGED <<notices, cachedMarkdownFiles, cachedImageFiles,
                                     templateCache, processedFiles>>
    /\ UNCHANGED <<vault, runsLeft, cmd, siteName, siteUrl, sitemapGenerator, runVars,
                   prevSite, callVars>>

generateRobotsTxt(F, bad) ==
    LET customRobotsPath == join(outputPath, <<"robots.txt">>)
        outputRobotsPath == join(sitePath, <<"robots.txt">>)
    IN  IF AdapterExists(F, customRobotsPath)
        THEN LET content == AdapterRead(F, customRobotsPath, bad)
             IN  IF Failed(content) THEN Throw(F, "read", customRobotsPath)
                 ELSE AdapterWrite(F, outputRobotsPath, content.val, bad)
        ELSE AdapterWrite(F, outputRobotsPath,
                          [kind |-> "robots", text |-> "default", sitemap |-> siteUrl], bad)

\* await this.generateRobotsTxt(); the success Notice; finally.
GenerateRobotsTxt ==
    /\ pc = "generateRobotsTxt"
    /\ \E bad \in FaultSets({join(outputPath, <<"robots.txt">>), join(sitePath, <<"robots.txt">>)}) :
          LET r == generateRobotsTxt(fs, bad)
          IN  /\ fs' = r.fs
              /\ faults' = faults + Cardinality(bad)
              /\ IF Failed(r)
                 THEN /\ CatchAndFinally(r.err)
                      /\ UNCHANGED log
                 ELSE /\ pc' = "Done"
                      /\ log' = Append(log, "generateRobotsTxt")
                      /\ notices' = Append(notices, Notice("success", NoError))
                      /\ cacheClearAll
    /\ UNCHANGED <<vault, runsLeft, cmd, siteName, siteUrl, sitemapGenerator, runVars,
                   prevSite, callVars>>

---------------------------------------------------------------------------
(* Link rewriting on its own (specification SpecPaths) *)

NoRewrite == [from |-> <<>>, text |-> <<>>, target |-> None, link |-> [kind |-> "none", text |-> <<>>, href |-> <<>>]]

\* The texts [[...]] that name document p: its path, its path without
\* ".md", its base name.
LinkTexts(p) ==
    {p, Front(p) \o <<basename(p, ".md")>>, <<basename(p, ".md")>>}

\* convertWikiLinks(content, file) for a body of file that holds [[text]].
ConvertWikiLinks ==
    /\ pc = "paths"
    /\ rewritten = NoRewrite
    /\ navTree = None
    /\ sitemapGenerator = None
    /\ \E file \in Range(getFilteredMarkdownFiles),
          text \in UNION {LinkTexts(p) : p \in Range(getFilteredMarkdownFiles)} :
          rewritten' =
              [from   |-> file,
               text   |-> text,
               target |-> findTargetFile(text, getFilteredMarkdownFiles),
               link   |-> convertWikiLink([type |-> "link", target |-> text, label |-> <<>>], file,
                                          getFilteredMarkdownFiles)]
    /\ UNCHANGED <<vault, fs, runsLeft, cmd, pc, notices, instVars, runVars, log,
                   faults, prevSite, navTree>>

\* The texts ![[...]] of the embeds: paths, file names and base names of
\* images, and a name of no image.
EmbedTexts ==
    {<<"pic.png">>, <<"images", "pic.png">>, <<"pic">>, <<"logo">>, <<"nopic.png">>}

\* convertImageEmbeds(content, file) for a body of file that holds ![[text]].
ConvertImageEmbeds ==
    /\ pc = "paths"
    /\ rewritten = NoRewrite
    /\ \E file \in Range(getFilteredMarkdownFiles), text \in EmbedTexts :
          rewritten' =
              [from   |-> file,
               text   |-> text,
               target |-> findImageFile(text, getFilteredImageFiles),
               link   |-> convertImageEmbed([type |-> "embed", target |-> text, label |-> <<>>],
                                            file, getFilteredImageFiles)]
    /\ UNCHANGED <<vault, fs, runsLeft, cmd, pc, notices, instVars, runVars, log,
                   faults, prevSite, navTree>>

\* generateNavigation: the tree of the filtered documents.
BuildNavigationTree ==
    /\ pc = "paths"
    /\ rewritten = NoRewrite
    /\ navTree = None
    /\ sitemapGenerator = None
    /\ navTree' = Some(buildNavigationTree(getFilteredMarkdownFiles))
    /\ UNCHANGED <<vault, fs, runsLeft, cmd, pc, notices, instVars, runVars, log,
                   faults, prevSite, rewritten>>

\* A document processed up to the sitemap entry of wrapInTemplate, in a
\* run whose SitemapGenerator is new.
AddSitemapUrl ==
    /\ pc = "paths"
    /\ rewritten = NoRewrite
    /\ navTree = None
    /\ sitemapGenerator = None
    /\ \E file \in Range(getFilteredMarkdownFiles) :
          /\ processedFiles' = processedFiles \cup {file}
          /\ sitemapGenerator' =
                Some(addUrl(NewSitemapGenerator(siteUrl),
                            SitemapUrl(file, getOutputPath(file))))
    /\ UNCHANGED <<vault, fs, runsLeft, cmd, pc, notices, siteName, siteUrl,
                   cachedMarkdownFiles, cachedImageFiles, templateCache, runVars, log,
                   faults, prevSite, callVars>>

---------------------------------------------------------------------------
(* Specifications *)

InitInstance ==
    /\ cmd = "none"
    /\ notices = <<>>
    /\ siteName = "My Site"
    /\ siteUrl = "https://example.com"
    /\ sitemapGenerator = None
    /\ cachedMarkdownFiles = None
    /\ cachedImageFiles = None
    /\ templateCache = <<>>
    /\ processedFiles = {}
    /\ i = 0
    /\ task = <<>>
    /\ imgIdx = 0
    /\ log = <<>>
    /\ faults = 0
    /\ prevSite = None
    /\ rewritten = NoRewrite
    /\ navTree = None

\* One command on a vault of NumDocs documents: more than one batch.
Init ==
    /\ vault = SubSeq(AllDocs, 1, NumDocs) \o Images
    /\ fs = UsedFs(SubSeq(AllDocs, 1, NumDocs))
    /\ runsLeft = 1
    /\ pc = "idle"
    /\ InitInstance

Next ==
    \/ GenerateSiteCommand
    \/ ClearOutputDirectoryCommand
    \/ InitializeSite
    \/ LoadSiteName
    \/ NextBatch
    \/ ReadDone
    \/ TemplateLoaded
    \/ DirEnsured
    \/ Written
    \/ CopyImage
    \/ GenerateSitemap
    \/ GenerateRobotsTxt

Spec == Init /\ [][Next]_vars

\* Documents of the vault of specification SpecRebuild.
RebuildDocs == 2

\* A vault with two documents of the same output path.
CollidingDocs == << <<"index.md">>, <<"My Post.md">>, <<"my-post.md">> >>

\* MaxRuns commands, one after the other, on a small vault.
InitRebuild ==
    /\ \E docs \in {SubSeq(AllDocs, 1, RebuildDocs), CollidingDocs} :
          /\ vault = docs \o Images
          /\ fs \in {FirstRunFs(docs), UsedFs(docs)}
    /\ runsLeft = MaxRuns
    /\ pc = "idle"
    /\ InitInstance

SpecRebuild == InitRebuild /\ [][Next]_vars

\* A listing that names a.md twice in the first batch, index.md twice in
\* the first batch and a.md again in the second.
DuplicateDocs ==
    << <<"index.md">>, <<"a.md">>, <<"a.md">>, <<"blog", "b.md">>, <<"index.md">>,
       <<"d.md">>, <<"a.md">> >>

InitDuplicates ==
    /\ vault = DuplicateDocs \o Images
    /\ fs = UsedFs(DuplicateDocs)
    /\ runsLeft = 1
    /\ pc = "idle"
    /\ InitInstance

SpecDuplicates == InitDuplicates /\ [][Next]_vars

\* Two documents of one batch with the template empty.html, a file of the
\* user's templates directory with no content.
TemplateDocs == << <<"index.md">>, <<"f.md">>, <<"g.md">> >>

InitTemplates ==
    /\ vault = TemplateDocs \o Images
    /\ fs = [UsedFs(TemplateDocs) EXCEPT
                !.files = (join(templatePath, <<"empty.html">>)
                              :> [kind |-> "template", text |-> ""]) @@ @]
    /\ runsLeft = 1
    /\ pc = "idle"
    /\ InitInstance

SpecTemplates == InitTemplates /\ [][Next]_vars

\* A vault with a folder whose name begins like the working directory's,
\* and with an image of the user's inside the working directory (next to
\* the README.md, a markdown file, that UsedFs has there).
WorkingDocs == << <<"index.md">>, <<"obsidian-foursg-notes", "h.md">> >>

WorkingImages == << <<"obsidian-foursg-notes", "pic.png">>, <<"logo.PNG">> >>

InitWorking ==
    /\ vault = WorkingDocs \o WorkingImages
    /\ fs = [UsedFs(WorkingDocs) EXCEPT
                !.files = (<<"obsidian-foursg-notes", "pic.png">> :> Source) @@
                          (join(outputPath, <<"logo.PNG">>) :> Source) @@ @]
    /\ runsLeft = 1
    /\ pc = "idle"
    /\ InitInstance

SpecWorking == InitWorking /\ [][Next]_vars

ImageFiles ==
    {<<"pic.png">>, <<"images", "pic.png">>, <<"pic.png.png">>, <<"logo.PNG">>}

\* The listings of two or three different images, in every order.
ImageListings ==
    {l \in UNION {[1..n -> ImageFiles] : n \in 2..3} :
        \A j, k \in DOMAIN l : j # k => l[j] # l[k]}

\* One document and a listing of images.
InitImages ==
    /\ \E images \in ImageListings : vault = << <<"index.md">> >> \o images
    /\ fs = [files |-> [p \in Range(vault) |-> Source], dirs |-> {}, fresh |-> {}]
    /\ runsLeft = 0
    /\ pc = "paths"
    /\ InitInstance

NextImages == ConvertImageEmbeds

SpecImages == InitImages /\ [][NextImages]_vars

PathFolders == {"blog", "My Docs", "!!!"}

PathNames == {"index.md", "Index.md", "My Post.md", "a.md"}

RECURSIVE FolderPaths(_)
FolderPaths(depth) ==
    IF depth = 0 THEN {<<>>}
    ELSE FolderPaths(depth - 1)
           \cup {Append(dir, f) : dir \in {x \in FolderPaths(depth - 1) : Len(x) = depth - 1},
                                  f \in PathFolders}

PathDocs == {Append(dir, n) : dir \in FolderPaths(MaxDepth), n \in PathNames}

\* Two documents at any folders of depth up to MaxDepth.
InitPathsSpec ==
    /\ vault \in {pair \in PathDocs \X PathDocs : pair[1] # pair[2]}
    /\ fs = [files |-> [p \in Range(vault) |-> Source], dirs |-> {}, fresh |-> {}]
    /\ runsLeft = 0
    /\ pc = "paths"
    /\ InitInstance

NextPaths == ConvertWikiLinks \/ BuildNavigationTree \/ AddSitemapUrl

SpecPaths == InitPathsSpec /\ [][NextPaths]_vars

---------------------------------------------------------------------------
(* Properties of generateSite: src/src/SiteGenerator.ts lines 69-117 *)

PipelineSteps ==
    <<"initializeSite", "loadSiteName", "processMarkdownFiles", "copyImages",
      "generateSitemap", "generateRobotsTxt">>

SitemapPath == join(sitePath, <<"sitemap.xml">>)

RobotsPath == join(sitePath, <<"robots.txt">>)

\* Pages of the site directory written since the command started.
FreshPages == {p \in fs.fresh : IsFile(fs, p) /\ fs.files[p].kind = "page"}

\* Image copies written since the command started.
FreshImages == {p \in fs.fresh : IsFile(fs, p) /\ fs.files[p].kind = "source"}

AllSettled == \A d \in DOMAIN task : task[d].pc \in Settled

\* C1: in a run of generateSite the steps complete in the fixed order
\* initializeSite, loadSiteName, documents, images, sitemap.xml, robots.txt,
\* and a run is done only after all six; no document is rendered before
\* the site name and URL are loaded (a page carries the loaded name), no
\* image is copied before every document has settled, sitemap.xml is
\* written only after the last image copy, robots.txt only after
\* sitemap.xml.
C1_PipelineOrder ==
    cmd = "generate" =>
        /\ IsPrefix(log, PipelineSteps)
        /\ (pc = "Done" => log = PipelineSteps)
        /\ (\E d \in DOMAIN task : task[d].pc # "pending") => Len(log) >= 2
        /\ \A p \in FreshPages :
              /\ Len(log) >= 2
              /\ fs.files[p].siteName = "Demo"
        /\ (FreshImages # {} \/ imgIdx > 1) =>
              /\ AllSettled
              /\ Len(log) >= 3
        /\ SitemapPath \in fs.fresh =>
              /\ imgIdx > Len(FilteredImageFiles(fs, vault))
              /\ Len(log) >= 4
        /\ RobotsPath \in fs.fresh =>
              /\ SitemapPath \in fs.fresh
              /\ Len(log) >= 5

\* A run that is done, with pages, image copies, sitemap.xml and robots.txt
\* written.
C1_Witness ==
    /\ cmd = "generate"
    /\ pc = "Done"
    /\ FreshPages # {}
    /\ FreshImages # {}
    /\ RobotsPath \in fs.fresh

CachesCleared ==
    /\ cachedMarkdownFiles = None
    /\ cachedImageFiles = None
    /\ templateCache = <<>>
    /\ processedFiles = {}

\* C2: whenever generateSite has returned, done or failed, the cached
\* document list and the cached image list are unset, the template cache is
\* empty and the processed-file set is empty.
C2_CachesClearedOnReturn ==
    (cmd = "generate" /\ pc \in {"Done", "Failed"}) => CachesCleared

\* A run aborted by sitemap.xml after documents filled every cache.
C2_Witness ==
    /\ cmd = "generate"
    /\ pc = "Failed"
    /\ log = SubSeq(PipelineSteps, 1, 4)
    /\ \E d \in DOMAIN task : task[d].pc = "written"

\* Pages in the site directory rendered from document d of the listing.
PagesOf(d) ==
    {p \in DOMAIN fs.files :
        /\ fs.files[p].kind = "page"
        /\ fs.files[p].src = FilteredMarkdownFiles(fs, vault)[d]}

\* C3: when a document has failed, the run is not aborted by it (a failed
\* run failed in sitemap.xml or robots.txt, after the documents), no
\* document is left unprocessed once the batch loop is over, a run that is
\* done has copied the images and written sitemap.xml and robots.txt, and
\* no page of the failed document is in the site directory.
C3_DocumentFailureIsolated ==
    cmd = "generate" =>
        \A d \in DOMAIN task :
            task[d].pc = "failed" =>
                /\ PagesOf(d) = {}
                /\ pc = "Failed" => /\ Len(log) >= 4
                                    /\ Last(notices).err.path \in {SitemapPath, RobotsPath,
                                                                   join(outputPath, <<"robots.txt">>)}
                /\ pc # "processing" => \A e \in DOMAIN task : task[e].pc \in {"written", "failed"}
                /\ pc = "Done" => /\ \A e \in DOMAIN task :
                                        task[e].pc = "written" => PagesOf(e) # {}
                                  /\ imgIdx > Len(FilteredImageFiles(fs, vault))
                                  /\ SitemapPath \in fs.fresh
                                  /\ RobotsPath \in fs.fresh

\* A run that is done, in which a document of the first batch failed and
\* documents of the same batch and of the next one were written.
C3_Witness ==
    /\ cmd = "generate"
    /\ pc = "Done"
    /\ task[3].pc = "failed"
    /\ task[4].pc = "written"
    /\ task[6].pc = "written"
    /\ FreshImages # {}

\* C4: a run that failed in initializeSite, generateSitemap or
\* generateRobotsTxt executes no later step (after a failure of
\* initializeSite no document is processed and neither sitemap.xml nor
\* robots.txt is written; after a failure of generateSitemap no robots.txt
\* is written), generateSite returns with exactly one error Notice after the
\* start Notice and no success Notice, and the caches are cleared.
C4_FatalAborts ==
    (cmd = "generate" /\ pc = "Failed") =>
        /\ Len(notices) = 2
        /\ notices[1].kind = "start"
        /\ notices[2].kind = "error"
        /\ CachesCleared
        /\ Len(log) \in {0, 4, 5}
        /\ IsPrefix(log, PipelineSteps)
        /\ Len(log) = 0 => /\ task = <<>>
                           /\ FreshPages = {}
                           /\ FreshImages = {}
                           /\ SitemapPath \notin fs.fresh
                           /\ RobotsPath \notin fs.fresh
        /\ Len(log) = 4 => RobotsPath \notin fs.fresh
        /\ ~ENABLED (InitializeSite \/ LoadSiteName \/ NextBatch \/ ReadDone
                        \/ TemplateLoaded \/ DirEnsured \/ Written \/ CopyImage
                        \/ GenerateSitemap \/ GenerateRobotsTxt)

\* A run aborted by initializeSite.
C4_Witness ==
    /\ cmd = "generate"
    /\ pc = "Failed"
    /\ log = <<>>
    /\ notices[2].kind = "error"

BatchNo(d) == (d - 1) \div 5

\* C5: at most 5 documents are in flight; the documents started are the
\* first whole groups of 5 of the listing; no document of a batch has
\* started while a document of an earlier batch is unsettled.
C5_BatchesOfFive ==
    cmd = "generate" =>
        /\ Cardinality({d \in DOMAIN task : task[d].pc \in InFlight}) <= 5
        /\ \A d, e \in DOMAIN task :
              /\ (task[d].pc # "pending" /\ BatchNo(e) < BatchNo(d)) => task[e].pc \in Settled
              /\ (task[d].pc # "pending" /\ BatchNo(e) = BatchNo(d)) => task[e].pc # "pending"

\* The first document of the second batch in flight.
C5_Witness ==
    /\ cmd = "generate"
    /\ Len(task) >= 6
    /\ task[6].pc \in InFlight
    /\ \A e \in 1..5 : task[e].pc \in Settled
---------------------------------------------------------------------------
(* Properties of the output area *)

\* The site directory and all that lies under it.
SiteTree(F) == {p \in (DOMAIN F.files) \cup F.dirs : IsPrefix(sitePath, p)}

\* C6: once initializeSite has completed in a run, the site directory
\* exists and every file and folder in it, the directory itself included,
\* was created or written since the run started: nothing an earlier run
\* left survives, whether that run was done or failed.
C6_SiteRebuilt ==
    (cmd = "generate" /\ Len(log) >= 1) =>
        /\ IsDir(fs, sitePath)
        /\ SiteTree(fs) \subseteq fs.fresh
        /\ \A p \in SiteTree(fs) : IsFile(fs, p) => fs.files[p].kind # "stale"

\* initializeSite has completed on the vault that held stale site files and
\* a robots.txt of the user.
C6_Witness ==
    /\ cmd = "generate"
    /\ pc = "loadSiteName"
    /\ IsFile(fs, join(outputPath, <<"robots.txt">>))
    /\ IsDir(fs, join(sitePath, <<"css">>))
    /\ ~AdapterExists(fs, join(sitePath, <<"old">>))

SeededFiles ==
    {join(templatePath, <<"default.html">>), join(cssPath, <<"default.css">>),
     join(outputPath, <<"README.md">>)}

\* The file of the plugin directory a seeded file is copied from.
PluginSource(p) == join(pluginDir, Tail(p))

\* C7: no step changes or removes a templates/default.html, css/default.css
\* or README.md that exists in the working directory, and one that appears
\* where none was is the copy of the plugin's file.
C7_DefaultsNeverOverwritten ==
    [][\A p \in SeededFiles :
          IF IsFile(fs, p)
          THEN IsFile(fs', p) /\ fs'.files[p] = fs.files[p]
          ELSE IsFile(fs', p) => fs'.files[p] = fs.files[PluginSource(p)]]_vars

\* All commands have run and the user's template, stylesheet and README are
\* as the user left them.
C7_Witness ==
    /\ runsLeft = 0
    /\ cmd = "generate"
    /\ pc = "Done"
    /\ \A p \in SeededFiles : IsFile(fs, p) /\ fs.files[p].text = "user"

\* The files and folders outside the site directory.
OutsideSite(F) ==
    [files |-> [p \in {q \in DOMAIN F.files : ~IsPrefix(sitePath, q)} |-> F.files[p]],
     dirs  |-> {p \in F.dirs : ~IsPrefix(sitePath, p)}]

\* C8: the 'Clear output directory' command changes nothing outside the
\* site directory, and when it reports success the site directory and all
\* under it are gone.
C8_ClearRemovesOnlySite ==
    [][(cmd' = "clear" /\ runsLeft' # runsLeft) =>
          /\ OutsideSite(fs') = OutsideSite(fs)
          /\ notices'[2].kind = "cleared" => SiteTree(fs') = {}]_vars

\* The command has cleared a site directory a generation had filled, and
\* the working directory still holds its templates, stylesheet, robots.txt
\* and README.
C8_Witness ==
    /\ cmd = "clear"
    /\ notices[2].kind = "cleared"
    /\ runsLeft = 0
    /\ SiteTree(fs) = {}
    /\ IsFile(fs, join(outputPath, <<"robots.txt">>))
    /\ IsFile(fs, join(templatePath, <<"custom.html">>))
    /\ \A p \in SeededFiles : IsFile(fs, p)

\* Two generations, one right after the other, both done with no operation
\* failing.
CleanRebuild ==
    /\ cmd = "generate"
    /\ pc = "Done"
    /\ faults = 0
    /\ prevSite # None

\* C9 as stated: the second of two generations of an unchanged vault leaves
\* the same output files with the same contents, sitemap.xml included.
C9_IdenticalRebuild == CleanRebuild => SiteFiles(fs) = prevSite[1]

\* Output paths that more than one document of the listing writes.
Collisions ==
    LET files == FilteredMarkdownFiles(fs, vault)
    IN  {getOutputPath(files[d]) : d \in {x \in DOMAIN files :
            \E y \in DOMAIN files : y # x /\ getOutputPath(files[y]) = getOutputPath(files[x])}}

SameEntries(a, b) ==
    /\ Len(a.entries) = Len(b.entries)
    /\ \A x \in Range(a.entries) \cup Range(b.entries) :
          Cardinality({k \in DOMAIN a.entries : a.entries[k] = x})
            = Cardinality({k \in DOMAIN b.entries : b.entries[k] = x})

\* C9 amended: the second of two generations of an unchanged vault leaves
\* the same set of output files; every file but sitemap.xml that no two
\* documents share as their output has the same content, robots.txt
\* included; sitemap.xml holds the same entries, in any order.
C9_RebuildUpToSitemapOrder ==
    CleanRebuild =>
        /\ DOMAIN SiteFiles(fs) = DOMAIN prevSite[1]
        /\ \A p \in DOMAIN SiteFiles(fs) :
              IF p = SitemapPath THEN SameEntries(fs.files[p], prevSite[1][p])
              ELSE p \notin Collisions => fs.files[p] = prevSite[1][p]

\* The second generation is done and its sitemap.xml lists the entries in
\* another order than the first one's.
C9_Witness ==
    /\ CleanRebuild
    /\ Collisions = {}
    /\ Len(fs.files[SitemapPath].entries) >= 2
    /\ fs.files[SitemapPath] # prevSite[1][SitemapPath]
    /\ fs.files[RobotsPath] = prevSite[1][RobotsPath]

---------------------------------------------------------------------------
(* Properties of link rewriting *)

RECURSIVE ResolveHref(_, _)
\* A relative reference resolved against a directory, as a browser does:
\* ".." leaves the directory, "." stays, a name enters.
ResolveHref(dir, href) ==
    IF href = <<>> THEN dir
    ELSE IF Head(href) = ".." THEN ResolveHref(Front(dir), Tail(href))
    ELSE IF Head(href) = "." THEN ResolveHref(dir, Tail(href))
    ELSE ResolveHref(Append(dir, Head(href)), Tail(href))

\* C10: when [[B]] in the body of A resolves to a document B, the href
\* written in its place, resolved against the directory of A's output file,
\* is B's output path.
C10_ReferenceRoundTrip ==
    rewritten.target # None =>
        ResolveHref(Front(getOutputPath(rewritten.from)), rewritten.link.href)
            = getOutputPath(rewritten.target[1])

\* A document two folders deep refers to a document at the root.
C10_Witness ==
    /\ rewritten.target # None
    /\ Len(rewritten.from) = 3
    /\ Len(rewritten.target[1]) = 1
    /\ rewritten.from # rewritten.target[1]
    /\ Head(rewritten.link.href) = ".."
---------------------------------------------------------------------------
(* Properties of reference rewriting in a run *)

\* The references of the model's documents that name no document and no
\* image of the vault.
Unresolved(item) == item.target \in {<<"missing">>, <<"nopic.png">>}

HasUnresolved(p) == \E k \in DOMAIN Body(p) : Unresolved(Body(p)[k])

\* C11: a page holds, in place of every reference of its document that
\* names no document, a link to #broken-link with the label (or, without a
\* label, the target) as text, and in place of every embed that names no
\* image an image to #broken-image with the embed text as alt text; a
\* document with such references does not fail unless an operation fails,
\* and when the run is done its page is written.
C11_BrokenReferencesContained ==
    cmd = "generate" =>
        /\ \A p \in FreshPages :
              LET body == Body(fs.files[p].src)
                  html == fs.files[p].content
              IN  \A k \in DOMAIN body :
                    Unresolved(body[k]) =>
                        IF body[k].type = "link"
                        THEN html[k] = [kind |-> "a",
                                        text |-> IF body[k].label = <<>> THEN body[k].target
                                                 ELSE body[k].label,
                                        href |-> <<"#broken-link">>]
                        ELSE html[k] = [kind |-> "img", text |-> body[k].target,
                                        href |-> <<"#broken-image">>]
        /\ \A d \in DOMAIN task :
              LET file == FilteredMarkdownFiles(fs, vault)[d]
              IN  HasUnresolved(file) =>
                    /\ faults = 0 => task[d].pc # "failed"
                    /\ (pc = "Done" /\ faults = 0) => PagesOf(d) # {}

\* The run is done and the page of index.md, which refers to a missing
\* document and embeds a missing image, is written.
C11_Witness ==
    /\ cmd = "generate"
    /\ pc = "Done"
    /\ \E p \in FreshPages :
          /\ fs.files[p].src = <<"index.md">>
          /\ fs.files[p].content[1].href = <<"#broken-link">>
          /\ fs.files[p].content[2].href = <<"#broken-image">>
          /\ fs.files[p].content[3].text = <<"Label">>

---------------------------------------------------------------------------
(* Properties of the navigation tree *)

\* The nodes above node k, from a root node down to its parent.
RECURSIVE NodesAbove(_, _)
NodesAbove(nodes, k) ==
    IF nodes[k].parent = 0 THEN <<>>
    ELSE Append(NodesAbove(nodes, nodes[k].parent), nodes[k].parent)

\* The nodes whose output path is the output path of file.
NodesOf(nodes, file) ==
    {k \in DOMAIN nodes : nodes[k].outputPath = getOutputPath(file)}

\* The folder nodes of the ancestor folders of file, outermost first, as
\* they are to be: one per folder, named by the folder, pages of no kind.
FolderChain(file) ==
    [k \in 1..(Len(file) - 1) |-> [name |-> file[k], path |-> SubSeq(file, 1, k)]]

IsNestedIndex(file) == Len(file) > 1 /\ Last(file) \in {"index.md", "Index.md"}

\* The path from a root node to node k is the chain of folder nodes of
\* file; an index document in a folder has the node of that folder.
OnFolderChain(nodes, k, file) ==
    LET down == IF IsNestedIndex(file) THEN Append(NodesAbove(nodes, k), k)
                ELSE NodesAbove(nodes, k)
    IN  /\ [j \in DOMAIN down |-> [name |-> nodes[down[j]].name,
                                   path |-> nodes[down[j]].path]] = FolderChain(file)
        /\ IsNestedIndex(file) \/ nodes[k].path = file

SharesOutputPath(file) ==
    \E other \in Range(vault) : other # file /\ getOutputPath(other) = getOutputPath(file)

---------------------------------------------------------------------------
(* Properties of the output layout *)

\* The pages in the site directory.
SitePages == {p \in DOMAIN fs.files : IsPrefix(sitePath, p) /\ fs.files[p].kind = "page"}

\* A run is done and none of its documents failed.
NoDocumentFailed ==
    /\ cmd = "generate"
    /\ pc = "Done"
    /\ \A d \in DOMAIN task : task[d].pc = "written"

\* The claim as stated, C13: after a run in which no document failed the
\* site directory holds one page per document, each document at an output
\* path of its own.
C13_OnePagePerDocument ==
    NoDocumentFailed =>
        LET files == FilteredMarkdownFiles(fs, vault)
        IN  /\ Cardinality(SitePages) = Len(files)
            /\ \A d \in DOMAIN files : PagesOf(d) # {}
            /\ \A d, e \in DOMAIN files :
                  d # e => getOutputPath(files[d]) # getOutputPath(files[e])

\* C13, amended: after a run in which no document failed the site
\* directory holds one page per output path of the documents, at the
\* folder-mirrored, sanitized path; a document with an output path of its
\* own has its page there, and documents with one output path (My Post.md
\* and my-post.md) share one file, which holds the page of one of them.
C13_OnePagePerOutputPath ==
    NoDocumentFailed =>
        LET files == FilteredMarkdownFiles(fs, vault)
        IN  /\ SitePages = {getOutputPath(files[d]) : d \in DOMAIN files}
            /\ \A p \in SitePages :
                  \E d \in DOMAIN files :
                      fs.files[p].src = files[d] /\ getOutputPath(files[d]) = p
            /\ \A d \in DOMAIN files :
                  getOutputPath(files[d]) \notin Collisions => PagesOf(d) # {}
            /\ <<"My Post.md">> \in Range(files) =>
                  SitePages = {sitePath \o <<"index.html">>, sitePath \o <<"my-post.html">>}
            /\ <<"a.md">> \in Range(files) =>
                  SitePages = {sitePath \o <<"index.html">>, sitePath \o <<"a.html">>}

\* A run of the vault with My Post.md and my-post.md is done, no document
\* failed, and the site holds two pages for the three documents.
C13_Witness ==
    /\ NoDocumentFailed
    /\ Len(FilteredMarkdownFiles(fs, vault)) = 3
    /\ Collisions # {}
    /\ Cardinality(SitePages) = 2

---------------------------------------------------------------------------
(* Properties of the sitemap defaults *)

\* The entry of sitemap.xml for the one document processed (SpecPaths).
EntryOf(file) == toXml(sitemapGenerator[1]).entries[1]

NoSitemapFields(file) == file # <<"My Docs", "a.md">>

C15_WeeklyAtRoot ==
    (pc = "paths" /\ sitemapGenerator # None) =>
        \A file \in processedFiles :
            NoSitemapFields(file) =>
                EntryOf(file).changefreq = (IF Len(file) = 1 THEN "weekly" ELSE "monthly")

---------------------------------------------------------------------------
(* Properties of the order of the sitemap *)

\* The place in the listing of the document whose page has the address loc.
DocOfLoc(loc) ==
    CHOOSE d \in DOMAIN task :
        getPageUrl(getOutputPath(FilteredMarkdownFiles(fs, vault)[d])) = loc

\* The entries are in the order of the batches of their documents.
InBatchOrder(locs) ==
    \A k, l \in DOMAIN locs :
        k < l => BatchNo(DocOfLoc(locs[k])) <= BatchNo(DocOfLoc(locs[l]))

UrlLocs == [k \in DOMAIN sitemapGenerator[1].urls |-> sitemapGenerator[1].urls[k].loc]

\* C16: in a run the list of sitemap entries only grows at its end, every
\* entry of a document of a batch is before every entry of a document of
\* a later batch, and sitemap.xml holds the entries in that order.
C16_StableAcrossBatches ==
    /\ [](cmd = "generate" =>
            /\ sitemapGenerator # None => InBatchOrder(UrlLocs)
            /\ SitemapPath \in fs.fresh =>
                  LET entries == fs.files[SitemapPath].entries
                  IN  InBatchOrder([k \in DOMAIN entries |-> Tail(entries[k].loc)]))
    /\ [][(sitemapGenerator # None /\ sitemapGenerator' # None) =>
            IsPrefix(sitemapGenerator[1].urls, sitemapGenerator'[1].urls)]_vars
    /\ [][(SitemapPath \notin fs.fresh /\ SitemapPath \in fs'.fresh) =>
            fs'.files[SitemapPath].entries = toXml(sitemapGenerator[1]).entries]_vars

\* sitemap.xml is written with the entry of a document of the second batch
\* last and the entries of the first batch not in the order of the listing.
C16_Witness ==
    /\ cmd = "generate"
    /\ SitemapPath \in fs.fresh
    /\ LET entries == fs.files[SitemapPath].entries
       IN  /\ Len(entries) >= 3
           /\ entries[Len(entries)].loc = <<"https://demo.test", "d.html">>
           /\ entries[1].loc # <<"https://demo.test", "index.html">>

---------------------------------------------------------------------------
(* Properties of the processed-file set (specification SpecDuplicates) *)

\* The places of the listing that name path and were not skipped.
ProcessedAs(path) ==
    {d \in DOMAIN task :
        /\ FilteredMarkdownFiles(fs, vault)[d] = path
        /\ task[d].pc \notin {"pending", "skipped"}}

\* C17: in a run at most one call of processMarkdownFile for a path goes
\* past the processed-file test, also when the path is twice in one
\* batch; a skipped call renders nothing; the path gets at most one
\* sitemap entry; and a page written in the run is not written again.
C17_ProcessedOnce ==
    /\ [](cmd = "generate" =>
            /\ \A path \in Range(FilteredMarkdownFiles(fs, vault)) :
                  Cardinality(ProcessedAs(path)) <= 1
            /\ \A d \in DOMAIN task : task[d].pc = "skipped" => task[d].page = NoPage
            /\ sitemapGenerator # None =>
                  \A k, l \in DOMAIN sitemapGenerator[1].urls :
                      sitemapGenerator[1].urls[k].loc = sitemapGenerator[1].urls[l].loc
                          => k = l)
    /\ [][(pc = "processing" /\ pc' = "processing") =>
            \A p \in FreshPages : p \in DOMAIN fs'.files /\ fs'.files[p] = fs.files[p]]_vars

\* A run is done in which a.md was written once and skipped twice, in its
\* own batch and in the next.
C17_Witness ==
    /\ cmd = "generate"
    /\ pc = "Done"
    /\ Len(task) = 7
    /\ task[2].pc = "written"
    /\ task[3].pc = "skipped"
    /\ task[5].pc = "skipped"
    /\ task[7].pc = "skipped"
    /\ Len(sitemapGenerator[1].urls) = 3

---------------------------------------------------------------------------
(* Properties of the template cache (specification SpecTemplates) *)

\* The claim as stated, C18: the cache maps a template path to the content
\* of the template, every page is rendered with the content of its
\* template, and no document starts to read a template whose load has
\* completed in the run.
C18_TemplateReadOnce ==
    /\ [](cmd = "generate" =>
            /\ \A t \in DOMAIN templateCache : templateCache[t] = fs.files[t]
            /\ \A p \in FreshPages :
                  fs.files[p].template = fs.files[TemplateOf(fs.files[p].src)].text)
    /\ [][pc = "processing" =>
            \A d \in DOMAIN task :
                (task[d].pc = "reading" /\ task'[d].pc = "loadingTemplate") =>
                    TemplateOf(FilteredMarkdownFiles(fs, vault)[d]) \notin DOMAIN templateCache]_vars

---------------------------------------------------------------------------
(* Properties of removeDirectoryRecursive *)

\* The path dir and all that lies under it.
TreeOf(F, dir) == {p \in (DOMAIN F.files) \cup F.dirs : IsPrefix(dir, p)}

RemovedDirs ==
    {sitePath, sitePath \o <<"old">>, sitePath \o <<"css">>, sitePath \o <<"missing">>}

\* C19: between commands, for the site directory, two of its folders and
\* a path that does not exist, and for every choice of the paths on
\* which an operation fails: removeDirectoryRecursive of a path that does
\* not exist changes nothing; with no failure it removes the folder and
\* all under it and nothing else; with a failure it ends without error,
\* the folder gone, when the remove of the folder itself works, and else
\* throws the error of the structured delete, which is not the error of
\* that remove.  The error the clear command shows is of this kind.
C19_RemoveFallback ==
    /\ Idle =>
          \A dir \in RemovedDirs, rmTree \in BOOLEAN :
          \A bad \in {b \in SUBSET TreeOf(fs, dir) : Cardinality(b) <= MaxFaults} :
              LET R == removeDirectoryRecursive(fs, dir, bad, rmTree)
              IN  /\ ~AdapterExists(fs, dir) => R = Ok(fs)
                  /\ (IsDir(fs, dir) /\ bad = {}) =>
                        /\ ~Failed(R)
                        /\ DOMAIN R.fs.files = (DOMAIN fs.files) \ TreeOf(fs, dir)
                        /\ R.fs.dirs = fs.dirs \ TreeOf(fs, dir)
                        /\ \A p \in DOMAIN R.fs.files : R.fs.files[p] = fs.files[p]
                  /\ (IsDir(fs, dir) /\ bad # {}) =>
                        IF rmTree /\ dir \notin bad
                        THEN ~Failed(R) /\ TreeOf(R.fs, dir) = {}
                        ELSE /\ Failed(R)
                             /\ R.err.path \in bad
                             /\ R.err.op \in {"list", "remove", "rmdir"}
                             /\ R.err.op = "remove" => IsFile(fs, R.err.path)
    /\ (cmd = "clear" /\ notices[2].kind = "clear-error") =>
          /\ IsPrefix(sitePath, notices[2].err.path)
          /\ notices[2].err # [op |-> "remove", path |-> sitePath]

\* The clear command has shown the error of the remove of a file two
\* folders down, after the removes of its folder and of the site
\* directory have failed as well.
C19_Witness ==
    /\ cmd = "clear"
    /\ notices[2].kind = "clear-error"
    /\ notices[2].err.op = "remove"
    /\ Len(notices[2].err.path) = Len(sitePath) + 2
    /\ IsDir(fs, sitePath)

---------------------------------------------------------------------------
(* Properties of findImageFile (specification SpecImages) *)

\* The images of the listing that the embed text names by one of the rules.
ImagesBy(rule) ==
    LET imageFiles == FilteredImageFiles(fs, vault)
        named == PathChars(rewritten.text)
    IN  {imageFiles[k] : k \in {j \in DOMAIN imageFiles :
            CASE rule = "path"     -> PathChars(imageFiles[j]) = named
              [] rule = "name"     -> Spell[Last(imageFiles[j])] = named
              [] rule = "basename" -> Spell[FileBasename(imageFiles[j])] = named}}

\* The claim as stated, C20: an embed resolves to the image whose path is
\* the embed text if there is one, wherever it is in the listing; else to
\* an image whose file name is the text; else to an image whose base name
\* is the text; else to none.
C20_PriorityOrder ==
    rewritten.link.kind = "img" =>
        IF ImagesBy("path") # {} THEN rewritten.target \in {Some(f) : f \in ImagesBy("path")}
        ELSE IF ImagesBy("name") # {}
             THEN rewritten.target \in {Some(f) : f \in ImagesBy("name")}
        ELSE IF ImagesBy("basename") # {}
             THEN rewritten.target \in {Some(f) : f \in ImagesBy("basename")}
        ELSE rewritten.target = None

---------------------------------------------------------------------------
(* Properties of the working directory (specification SpecWorking) *)

InWorkingDir(p) == p # <<>> /\ Head(p) = "obsidian-foursg"

NotesDoc == <<"obsidian-foursg-notes", "h.md">>

NotesImage == <<"obsidian-foursg-notes", "pic.png">>

\* C21: in a run no file of the working directory is among the documents
\* or the images, none is the source of a page, none is copied into the
\* site, none has a node of the navigation tree or an entry of the
\* sitemap, and a reference or an embed that names one is rewritten as
\* broken; the document and the image of the folder
\* obsidian-foursg-notes are among the documents and images, and are
\* rendered and copied.
C21_WorkingDirectoryExcluded ==
    cmd = "generate" =>
        /\ cachedMarkdownFiles # None =>
              /\ \A f \in Range(cachedMarkdownFiles[1]) : ~InWorkingDir(f)
              /\ NotesDoc \in Range(cachedMarkdownFiles[1])
              /\ LET nodes == buildNavigationTree(getFilteredMarkdownFiles)
                 IN  /\ \A k \in DOMAIN nodes : ~InWorkingDir(nodes[k].path)
                     /\ \E k \in DOMAIN nodes : nodes[k].path = NotesDoc
        /\ cachedImageFiles # None =>
              /\ \A f \in Range(cachedImageFiles[1]) : ~InWorkingDir(f)
              /\ NotesImage \in Range(cachedImageFiles[1])
        /\ \A p \in DOMAIN fs.files :
              Under(sitePath, p) =>
                  /\ p[Len(sitePath) + 1] # "obsidian-foursg"
                  /\ fs.files[p].kind = "page" => ~InWorkingDir(fs.files[p].src)
        /\ sitemapGenerator # None =>
              \A k \in DOMAIN sitemapGenerator[1].urls :
                  ~InWorkingDir(sitemapGenerator[1].urls[k].loc)
        /\ \A p \in FreshPages :
              fs.files[p].src = NotesDoc =>
                  /\ fs.files[p].content[1].href = <<"#broken-link">>
                  /\ fs.files[p].content[2].href = <<"#broken-image">>
        /\ (pc = "Done" /\ faults = 0) =>
              /\ sitePath \o <<"obsidian-foursg-notes", "h.html">> \in FreshPages
              /\ sitePath \o <<"obsidian-foursg-notes", "pic.png">> \in FreshImages

\* A run is done while the working directory holds a markdown file and an
\* image; the page of obsidian-foursg-notes/h.md is written and the image
\* next to it copied.
C21_Witness ==
    /\ cmd = "generate"
    /\ pc = "Done"
    /\ IsFile(fs, outputPath \o <<"README.md">>)
    /\ IsFile(fs, outputPath \o <<"logo.PNG">>)
    /\ sitePath \o <<"obsidian-foursg-notes", "h.html">> \in FreshPages
    /\ sitePath \o <<"obsidian-foursg-notes", "pic.png">> \in FreshImages

---------------------------------------------------------------------------
(* Properties of the paths written and removed *)

\* The files and folders outside the working directory.
OutsideWorkingDir(F) ==
    [files |-> [p \in {q \in DOMAIN F.files : ~IsPrefix(outputPath, q)} |-> F.files[p]],
     dirs  |-> {p \in F.dirs : ~IsPrefix(outputPath, p)}]

\* C22: every path written or created since a command started is the
\* working directory or lies in it; no step of a command, failed or not,
\* creates, changes or removes a file or a folder outside the working
\* directory; and an error shown for a write, a mkdir, a remove or a
\* rmdir names a path of the working directory.
C22_OnlyWorkingDirectoryTouched ==
    /\ [](/\ \A p \in fs.fresh : IsPrefix(outputPath, p)
          /\ \A k \in DOMAIN notices :
                notices[k].err.op \in {"write", "mkdir", "remove", "rmdir"} =>
                    IsPrefix(outputPath, notices[k].err.path))
    /\ [][OutsideWorkingDir(fs') = OutsideWorkingDir(fs)]_vars

\* A generation has failed after it wrote pages and copied images, and
\* the documents and images of the vault are in place.
C22_Witness ==
    /\ cmd = "generate"
    /\ pc = "Failed"
    /\ FreshPages # {}
    /\ FreshImages # {}
    /\ \A p \in Range(vault) : IsFile(fs, p) /\ fs.files[p] = Source

---------------------------------------------------------------------------
(* Properties of the sitemap and the pages *)

\* The entries of the written sitemap.xml for the document at place d.
EntriesOf(d) ==
    LET entries == fs.files[SitemapPath].entries
    IN  {k \in DOMAIN entries :
            Tail(entries[k].loc)
                = getPageUrl(getOutputPath(FilteredMarkdownFiles(fs, vault)[d]))}

\* The claim as stated, C23: when sitemap.xml is written, a document whose
\* page was written has one entry and a document that failed has none.
C23_EntriesMatchPages ==
    (cmd = "generate" /\ SitemapPath \in fs.fresh) =>
        \A d \in DOMAIN task :
            /\ task[d].pc = "written" => Cardinality(EntriesOf(d)) = 1
            /\ task[d].pc = "failed" => EntriesOf(d) = {}

---------------------------------------------------------------------------
(* Properties of the content of a page *)

\* The page of a document as the inputs of the run give it: the document,
\* the listings of documents and images, the front matter of index.md and
\* the template file.
PageFromInputs(file) ==
    [kind         |-> "page",
     src          |-> file,
     template     |-> fs.files[TemplateOf(file)].text,
     content      |-> markdownToHTML(Body(file), file, FilteredMarkdownFiles(fs, vault),
                                     FilteredImageFiles(fs, vault)),
     siteName     |-> loadedSiteName(fs, vault),
     canonicalUrl |-> <<loadedSiteUrl(fs, vault)>> \o getPageUrl(getOutputPath(file))]

\* C24: a page rendered or written in a run is the page the inputs of the
\* run give for its document, whatever the order of the steps of the
\* documents of its batch and whichever other documents have failed.
C24_PageFromInputsOnly ==
    cmd = "generate" =>
        /\ \A p \in FreshPages : fs.files[p] = PageFromInputs(fs.files[p].src)
        /\ \A d \in DOMAIN task :
              task[d].page # NoPage =>
                  task[d].page = PageFromInputs(FilteredMarkdownFiles(fs, vault)[d])

\* The page of a.md is written, after the pages of other documents of its
\* batch, in a run in which index.md has failed.
C24_Witness ==
    /\ cmd = "generate"
    /\ pc = "Done"
    /\ task[1].pc = "failed"
    /\ task[2].pc = "written"
    /\ sitemapGenerator[1].urls[1].loc # <<"a.html">>
    /\ sitePath \o <<"a.html">> \in FreshPages

---------------------------------------------------------------------------
(* Properties of copyImages *)

\* The image the loop of copyImages is at.
ImageAt(k) == FilteredImageFiles(fs, vault)[k]

\* C25: a step of copyImages goes on to the next image or, after the
\* last, to generateSitemap, never to the failed outcome; an image whose
\* own copy meets no failure is copied to its mirrored path also after
\* the copy of an image before it has failed; a run that fails after
\* copyImages fails on sitemap.xml or robots.txt; and a run that is done
\* has written sitemap.xml and robots.txt.
C25_ImageFailureIsolated ==
    /\ [][pc = "copyImages" =>
            /\ pc' \in {"copyImages", "generateSitemap"}
            /\ imgIdx' = imgIdx + 1
            /\ notices' = notices
            /\ faults' = faults =>
                  /\ IsFile(fs', sitePath \o ImageAt(imgIdx))
                  /\ sitePath \o ImageAt(imgIdx) \in fs'.fresh]_vars
    /\ [](cmd = "generate" =>
            /\ (pc = "Failed" /\ Len(log) >= 3) =>
                  notices[Len(notices)].err.path
                      \in {SitemapPath, RobotsPath, outputPath \o <<"robots.txt">>}
            /\ pc = "Done" => SitemapPath \in fs.fresh /\ RobotsPath \in fs.fresh)

\* A run is done in which the copy of images/pic.png failed: logo.PNG, the
\* image after it, is copied, and sitemap.xml and robots.txt are written.
C25_Witness ==
    /\ cmd = "generate"
    /\ pc = "Done"
    /\ ~IsFile(fs, sitePath \o <<"images", "pic.png">>)
    /\ sitePath \o <<"logo.PNG">> \in FreshImages
    /\ SitemapPath \in fs.fresh
    /\ RobotsPath \in fs.fresh
=============================================================================
